---------------------------- MODULE Spec2Model ----------------------------
(***************************************************************************)
(* A model of vmcp.utils.aggregate_results (severity ranking, per-scanner  *)
(* merge, save, summary table) and of vmcp.utils.tool_detector (pattern    *)
(* based detection of MCP tools in Python and TypeScript sources).         *)
(*                                                                         *)
(* In the aggregation half, text (file names, org/repo names) is a         *)
(* sequence of one-character strings; in the detector half, where files    *)
(* of any content are read, it is a sequence of Unicode code points.       *)
(* Matching, splitting and comparing work on characters as the Python      *)
(* code does.  A Python dict is a sequence of <<key, value>> pairs with    *)
(* distinct keys, in insertion order.                                      *)
(***************************************************************************)
EXTENDS Integers, Sequences, FiniteSets, TLC

(***************************************************************************)
(* Bounds of the model.                                                    *)
(***************************************************************************)
\* longest list of violation records handed to get_worst_severity
MaxVulns == 2

\* most calls made on one results directory
MaxOps == 3

\* most fragments of one source file
MaxFrags == 4

(***************************************************************************)
(* Python dicts.                                                           *)
(***************************************************************************)
DictKeys(d) == { d[i][1] : i \in 1..Len(d) }

DictHas(d, k) == \E i \in 1..Len(d) : d[i][1] = k

\* d.get(k, default)
DictGet(d, k, default) ==
    IF DictHas(d, k)
    THEN d[CHOOSE i \in 1..Len(d) : d[i][1] = k][2]
    ELSE default

\* d[k] = v : an existing key keeps its place, a new key is appended
DictSet(d, k, v) ==
    IF DictHas(d, k)
    THEN [i \in 1..Len(d) |-> IF d[i][1] = k THEN <<k, v>> ELSE d[i]]
    ELSE Append(d, <<k, v>>)

\* d1 == d2 for dicts: same keys, same values, whatever the order
DictEq(d1, d2) ==
    /\ Len(d1) = Len(d2)
    /\ DictKeys(d1) = DictKeys(d2)
    /\ \A k \in DictKeys(d1) : DictGet(d1, k, <<>>) = DictGet(d2, k, <<>>)

(***************************************************************************)
(* Python str, as a sequence of one-character strings.                     *)
(***************************************************************************)
\* the characters of the model in code point order: str comparison in
\* Python is by code point
CodePointOrder ==
    << "\n", " ", "\"", "'", "(", ")", ",", "-", ".", "/",
       "0", "1", "2", "3", "4", "5", "6", "7", "8", "9", ":", "=", ">", "@",
       "L", "R", "S", "T", "[", "]", "_",
       "a", "b", "c", "d", "e", "f", "g", "h", "i", "j", "k", "l", "m",
       "n", "o", "p", "q", "r", "s", "t", "u", "v", "w", "x", "y", "z",
       "{", "}" >>

Ord(c) == CHOOSE i \in 1..Len(CodePointOrder) : CodePointOrder[i] = c

Min(S) == CHOOSE x \in S : \A y \in S : x <= y

Max(S) == CHOOSE x \in S : \A y \in S : y <= x

\* a < b for str
StrLess(a, b) ==
    LET n    == IF Len(a) < Len(b) THEN Len(a) ELSE Len(b)
        diff == { i \in 1..n : a[i] # b[i] }
    IN  IF diff = {} THEN Len(a) < Len(b)
        ELSE Ord(a[Min(diff)]) < Ord(b[Min(diff)])

\* whether `lit` occurs in `s` at position i (1-based)
LitAt(s, i, lit) ==
    /\ i >= 1
    /\ i + Len(lit) - 1 <= Len(s)
    /\ \A k \in 1..Len(lit) : s[i + k - 1] = lit[k]

\* lit in s
Contains(s, lit) == \E i \in 1..(Len(s) + 1) : LitAt(s, i, lit)

\* s.endswith(lit)
EndsWith(s, lit) == LitAt(s, Len(s) - Len(lit) + 1, lit)

\* s.replace(old, ''): every occurrence of old, left to right
RECURSIVE Remove(_, _, _)
Remove(s, old, i) ==
    IF i > Len(s) THEN <<>>
    ELSE IF LitAt(s, i, old) THEN Remove(s, old, i + Len(old))
    ELSE <<s[i]>> \o Remove(s, old, i + 1)

\* s.split(sep, 1) for a one-character sep: one or two parts
SplitOnce(s, sep) ==
    LET at == { i \in 1..Len(s) : s[i] = sep }
    IN  IF at = {} THEN << s >>
        ELSE << SubSeq(s, 1, Min(at) - 1), SubSeq(s, Min(at) + 1, Len(s)) >>

\* sep.join(parts)
RECURSIVE Join(_, _)
Join(sep, parts) ==
    IF parts = <<>> THEN <<>>
    ELSE IF Len(parts) = 1 THEN parts[1]
    ELSE parts[1] \o sep \o Join(sep, Tail(parts))

\* Path(name).stem: the name without its last suffix
Stem(name) ==
    LET dots == { i \in 2..Len(name) : name[i] = "." }
    IN  IF dots = {} THEN name ELSE SubSeq(name, 1, Max(dots) - 1)

\* the sequences that list the elements of S once each
RECURSIVE Orderings(_)
Orderings(S) ==
    IF S = {} THEN { <<>> }
    ELSE UNION { { <<x>> \o q : q \in Orderings(S \ {x}) } : x \in S }

(***************************************************************************)
(* json.dump and json.load of a results mapping {scanner: [violation]},    *)
(* a violation being {field: string}.  The text is the sequence of JSON    *)
(* tokens; separators and indentation are left out.                        *)
(***************************************************************************)
Punct(p) == <<"punct", p>>

Str(x) == <<"string", x>>

IsPunct(tok, p) == tok[1] = "punct" /\ tok[2] = p

RECURSIVE DumpFields(_, _)
DumpFields(vuln, i) ==
    IF i > Len(vuln) THEN <<>>
    ELSE << Str(vuln[i][1]), Str(vuln[i][2]) >> \o DumpFields(vuln, i + 1)

DumpVuln(vuln) == << Punct("{") >> \o DumpFields(vuln, 1) \o << Punct("}") >>

RECURSIVE DumpVulns(_, _)
DumpVulns(vulns, i) ==
    IF i > Len(vulns) THEN <<>>
    ELSE DumpVuln(vulns[i]) \o DumpVulns(vulns, i + 1)

RECURSIVE DumpItems(_, _)
DumpItems(results, i) ==
    IF i > Len(results) THEN <<>>
    ELSE << Str(results[i][1]), Punct("[") >> \o DumpVulns(results[i][2], 1)
         \o << Punct("]") >> \o DumpItems(results, i + 1)

\* json.dump(results, f, indent=2, default=str)
JsonDump(results) == << Punct("{") >> \o DumpItems(results, 1) \o << Punct("}") >>

\* each parser returns <<value, index of the next token>>
RECURSIVE LoadFields(_, _, _)
LoadFields(text, i, acc) ==
    IF IsPunct(text[i], "}") THEN << acc, i + 1 >>
    ELSE LoadFields(text, i + 2, DictSet(acc, text[i][2], text[i + 1][2]))

RECURSIVE LoadVulns(_, _, _)
LoadVulns(text, i, acc) ==
    IF IsPunct(text[i], "]") THEN << acc, i + 1 >>
    ELSE LET vuln == LoadFields(text, i + 1, <<>>)
         IN  LoadVulns(text, vuln[2], Append(acc, vuln[1]))

RECURSIVE LoadItems(_, _, _)
LoadItems(text, i, acc) ==
    IF IsPunct(text[i], "}") THEN << acc, i + 1 >>
    ELSE LET vulns == LoadVulns(text, i + 2, <<>>)
         IN  LoadItems(text, vulns[2], DictSet(acc, text[i][2], vulns[1]))

\* json.load(f)
JsonLoad(text) == LoadItems(text, 2, <<>>)[1]

(***************************************************************************)
(* aggregate_results.py: severities.                                       *)
(***************************************************************************)
SEVERITY_ORDER ==
    << <<"CRITICAL", 0>>, <<"HIGH", 1>>, <<"MEDIUM", 2>>, <<"LOW", 3>>,
       <<"UNKNOWN", 4>>, <<"WARNING", 5>>, <<"NONE", 6>> >>

\* the default of SEVERITY_ORDER.get(severity, 999)
UnrankedPriority == 999

\* SEVERITY_ORDER.get(severity, 999)
Priority(severity) == DictGet(SEVERITY_ORDER, severity, UnrankedPriority)

\* vuln.get('severity', 'UNKNOWN')
SeverityOf(vuln) == DictGet(vuln, "severity", "UNKNOWN")

\* the severity values a violation record may carry in the model: the seven
\* recognized ones and one the code does not know
SeverityValues == DictKeys(SEVERITY_ORDER) \cup {"BOGUS"}

\* violation records: with a severity, or without one
VulnRecords == { << <<"severity", s>> >> : s \in SeverityValues }
               \cup { << <<"id", "CVE-1">> >> }

RECURSIVE SeqsUpTo(_, _)
SeqsUpTo(S, n) ==
    IF n = 0 THEN { <<>> }
    ELSE LET shorter == SeqsUpTo(S, n - 1)
         IN  shorter \cup { Append(q, x) : q \in { r \in shorter : Len(r) = n - 1 }, x \in S }

\* lines 41-46, the body of the for loop: `worst` is <<worst_severity,
\* worst_priority>>
WorstStep(worst, vuln) ==
    LET severity == SeverityOf(vuln)
        priority == Priority(severity)
    IN  IF priority < worst[2] THEN <<severity, priority>> ELSE worst

RECURSIVE WorstLoop(_, _, _)
WorstLoop(worst, vulns, i) ==
    IF i > Len(vulns) THEN worst
    ELSE WorstLoop(WorstStep(worst, vulns[i]), vulns, i + 1)

\* get_worst_severity(vulnerabilities), as generate_summary_table calls it
GetWorstSeverity(vulns) ==
    IF vulns = <<>> THEN "NONE"
    ELSE WorstLoop(<<"NONE", Priority("NONE")>>, vulns, 1)[1]

(***************************************************************************)
(* aggregate_results.py: the results directory.                            *)
(***************************************************************************)
\* the keys of vmcp.orchestrator.SCANNER_MAP, in their order
SCANNER_MAP ==
    << <<"t", "r", "i", "v", "y">>,
       <<"o", "s", "v", "-", "s", "c", "a", "n", "n", "e", "r">> >>

ViolationsSuffix ==
    <<"-", "v", "i", "o", "l", "a", "t", "i", "o", "n", "s", ".", "j", "s", "o", "n">>

\* f'{scanner_name}-violations.json'
TempFileName(scanner_name) == scanner_name \o ViolationsSuffix

\* f'{org_name}-{repo_name}-violations.json'
PerRepoFileName(org_name, repo_name) ==
    org_name \o <<"-">> \o repo_name \o ViolationsSuffix

TEMP_SCANNER_FILE_NAMES == { TempFileName(SCANNER_MAP[i]) : i \in 1..Len(SCANNER_MAP) }

\* a directory is a function from the names of its files to their text
Exists(dir, name) == name \in DOMAIN dir

WriteFile(dir, name, text) ==
    [n \in DOMAIN dir \cup {name} |-> IF n = name THEN text ELSE dir[n]]

Unlink(dir, name) == [n \in DOMAIN dir \ {name} |-> dir[n]]

(***************************************************************************)
(* aggregate_results                                                       *)
(***************************************************************************)
\* a slip: the new findings are added to the scanner's prior entry
MergeEntryConcat(aggregated, scanner, vulns) ==
    DictSet(aggregated, scanner, DictGet(aggregated, scanner, <<>>) \o vulns)

\* line 74: aggregated[scanner] = vulns
MergeEntry(aggregated, scanner, vulns) == DictSet(aggregated, scanner, vulns)

\* lines 73-74
RECURSIVE MergeScannerData(_, _, _)
MergeScannerData(aggregated, scanner_data, i) ==
    IF i > Len(scanner_data) THEN aggregated
    ELSE MergeScannerData(
             MergeEntry(aggregated, scanner_data[i][1], scanner_data[i][2]),
             scanner_data, i + 1)

\* lines 67-74
RECURSIVE MergeTempFiles(_, _, _)
MergeTempFiles(aggregated, dir, i) ==
    IF i > Len(SCANNER_MAP) THEN aggregated
    ELSE LET scanner_file == TempFileName(SCANNER_MAP[i])
         IN  MergeTempFiles(
                 IF Exists(dir, scanner_file)
                 THEN MergeScannerData(aggregated, JsonLoad(dir[scanner_file]), 1)
                 ELSE aggregated,
                 dir, i + 1)

\* aggregate_results(org_name, repo_name, results_dir): the mapping returned
AggregateResults(org_name, repo_name, dir) ==
    LET per_repo_file == PerRepoFileName(org_name, repo_name)
        existing == IF Exists(dir, per_repo_file)
                    THEN JsonLoad(dir[per_repo_file])
                    ELSE <<>>
    IN  MergeTempFiles(existing, dir, 1)

(***************************************************************************)
(* save_aggregated_results                                                 *)
(***************************************************************************)
\* lines 96-100
RECURSIVE RemoveTempFiles(_, _)
RemoveTempFiles(dir, i) ==
    IF i > Len(SCANNER_MAP) THEN dir
    ELSE LET temp_file == TempFileName(SCANNER_MAP[i])
         IN  RemoveTempFiles(
                 IF Exists(dir, temp_file) THEN Unlink(dir, temp_file) ELSE dir,
                 i + 1)

\* save_aggregated_results(org_name, repo_name, results, results_dir): the
\* directory it leaves (mkdir changes no file)
SaveAggregatedResults(org_name, repo_name, results, dir) ==
    LET violations_file == PerRepoFileName(org_name, repo_name)
    IN  RemoveTempFiles(WriteFile(dir, violations_file, JsonDump(results)), 1)

(***************************************************************************)
(* generate_summary_table                                                  *)
(***************************************************************************)
SEVERITY_EMOJI ==
    << <<"CRITICAL", "red_circle">>, <<"HIGH", "red_circle">>,
       <<"MEDIUM", "yellow_circle">>, <<"LOW", "yellow_circle">>,
       <<"UNKNOWN", "yellow_circle">>, <<"WARNING", "yellow_circle">>,
       <<"NONE", "green_circle">> >>

\* results_path.glob('*-*-violations.json')
GlobMatches(name) ==
    /\ EndsWith(name, ViolationsSuffix)
    /\ Contains(SubSeq(name, 1, Len(name) - Len(ViolationsSuffix)), <<"-">>)

\* count_by_severity
RECURSIVE CountBySeverity(_, _, _)
CountBySeverity(counts, vulns, i) ==
    IF i > Len(vulns) THEN counts
    ELSE LET severity == SeverityOf(vulns[i])
         IN  CountBySeverity(
                 IF DictHas(counts, severity)
                 THEN DictSet(counts, severity, DictGet(counts, severity, 0) + 1)
                 ELSE counts,
                 vulns, i + 1)

\* count_fixable
CountFixable(vulns) ==
    Cardinality({ i \in 1..Len(vulns) : DictGet(vulns[i], "fixed_version", "") # "" })

\* sorted(names)
RECURSIVE SortedStrs(_)
SortedStrs(names) ==
    IF names = {} THEN <<>>
    ELSE LET first == CHOOSE x \in names : \A y \in names \ {x} : StrLess(x, y)
         IN  <<first>> \o SortedStrs(names \ {first})

\* get_scanners_used
GetScannersUsed(scanners) ==
    IF scanners = <<>> THEN <<"N", "o", "n", "e">>
    ELSE Join(<<",", " ">>, SortedStrs(DictKeys(scanners)))

\* lines 149-150
RECURSIVE AllVulnerabilities(_, _)
AllVulnerabilities(scanners, i) ==
    IF i > Len(scanners) THEN <<>>
    ELSE scanners[i][2] \o AllVulnerabilities(scanners, i + 1)

\* a slip: the rank is not negated, which puts the worst repositories first
SortKeyWorstFirst(severity_priority, org_repo) == << severity_priority, org_repo >>

\* line 175: (-severity_priority, org_repo)
SortKey(severity_priority, org_repo) == << -severity_priority, org_repo >>

\* the order of the sort keys: tuples compare element by element
KeyLess(a, b) == a[1] < b[1] \/ (a[1] = b[1] /\ StrLess(a[2], b[2]))

\* lines 136-176: the row of one per-repository file
SummaryRow(name, dir) ==
    LET filename_parts ==
            SplitOnce(Remove(Stem(name), <<"-", "v", "i", "o", "l", "a", "t", "i", "o", "n", "s">>, 1), "-")
        org_name == filename_parts[1]
        repo_name == filename_parts[2]
        org_repo == org_name \o <<"/">> \o repo_name
        scanners == JsonLoad(dir[name])
        all_vulnerabilities == AllVulnerabilities(scanners, 1)
        worst == GetWorstSeverity(all_vulnerabilities)
    IN  [ org_repo        |-> org_repo,
          filename        |-> PerRepoFileName(org_name, repo_name),
          total           |-> Len(all_vulnerabilities),
          severity_counts |-> CountBySeverity(
                                  << <<"CRITICAL", 0>>, <<"HIGH", 0>>, <<"MEDIUM", 0>>, <<"LOW", 0>> >>,
                                  all_vulnerabilities, 1),
          fixable         |-> CountFixable(all_vulnerabilities),
          scanners        |-> GetScannersUsed(scanners),
          status          |-> DictGet(SEVERITY_EMOJI, worst, "white_circle"),
          sort_key        |-> SortKey(Priority(worst), org_repo) ]

\* lines 130-176: the rows of the files in the order glob yields them
RECURSIVE CollectRows(_, _, _)
CollectRows(files, dir, i) ==
    IF i > Len(files) THEN <<>>
    ELSE IF files[i] \in TEMP_SCANNER_FILE_NAMES
         THEN CollectRows(files, dir, i + 1)
    ELSE IF Len(SplitOnce(Remove(Stem(files[i]), <<"-", "v", "i", "o", "l", "a", "t", "i", "o", "n", "s">>, 1), "-")) # 2
         THEN CollectRows(files, dir, i + 1)
    ELSE << SummaryRow(files[i], dir) >> \o CollectRows(files, dir, i + 1)

\* list.sort is stable: a row goes after the rows whose key is not greater
RECURSIVE InsertRow(_, _)
InsertRow(sorted, row) ==
    IF sorted = <<>> THEN << row >>
    ELSE IF KeyLess(row.sort_key, sorted[1].sort_key) THEN << row >> \o sorted
    ELSE << sorted[1] >> \o InsertRow(Tail(sorted), row)

\* line 179: rows.sort(key=lambda r: r['sort_key'])
RECURSIVE SortRows(_)
SortRows(rows) ==
    IF rows = <<>> THEN <<>>
    ELSE InsertRow(SortRows(SubSeq(rows, 1, Len(rows) - 1)), rows[Len(rows)])

\* lines 191-201: the cells of one table line; "clipboard" stands for the
\* one character of the link's text
TableLine(row) ==
    << <<"[">> \o row.org_repo
         \o <<"]", "(", "h", "t", "t", "p", "s", ":", "/", "/", "g", "i", "t", "h", "u", "b", ".", "c", "o", "m", "/">>
         \o row.org_repo \o <<")">>,
       <<"[", "clipboard", "]", "(", "r", "e", "s", "u", "l", "t", "s", "/">> \o row.filename \o <<")">>,
       row.total,
       DictGet(row.severity_counts, "CRITICAL", 0),
       DictGet(row.severity_counts, "HIGH", 0),
       DictGet(row.severity_counts, "MEDIUM", 0),
       DictGet(row.severity_counts, "LOW", 0),
       row.fixable,
       row.scanners,
       row.status >>

\* lines 182-187
TableHeader ==
    << <<"# Vulnerability Scan Results">>,
       <<"">>,
       <<"| Project | Results | Total | Critical | High | Medium | Low | Fixable | Scanners | Status |">>,
       <<"|---------|---------|-------|----------|------|--------|-----|---------|----------|--------|">> >>

\* the files glob yields, in directory order `files`: the sorted rows
SummaryRows(files, dir) == SortRows(CollectRows(files, dir, 1))

\* generate_summary_table: the lines of the text returned
SummaryLines(rows) == TableHeader \o [ i \in 1..Len(rows) |-> TableLine(rows[i]) ]

(***************************************************************************)
(* tool_detector.py: the characters of a text.  The detector reads files   *)
(* as UTF-8, so a character of a text is any Unicode code point: a text is *)
(* a sequence of code points.  The literals of the code and the sample     *)
(* files are written as the characters they consist of and turned into     *)
(* code points by Chars.                                                   *)
(***************************************************************************)
\* the characters of code points 32..95, in order
AsciiUpper ==
    <<
       " ", "!", "\"", "#", "$", "%", "&", "'", "(", ")", "*", "+", ",", "-", ".", "/",
       "0", "1", "2", "3", "4", "5", "6", "7", "8", "9", ":", ";", "<", "=", ">", "?",
       "@", "A", "B", "C", "D", "E", "F", "G", "H", "I", "J", "K", "L", "M", "N", "O",
       "P", "Q", "R", "S", "T", "U", "V", "W", "X", "Y", "Z", "[", "\\", "]", "^", "_" >>

\* the characters of code points 97..126, in order
AsciiLower ==
    <<
       "a", "b", "c", "d", "e", "f", "g", "h", "i", "j", "k", "l", "m", "n", "o", "p",
       "q", "r", "s", "t", "u", "v", "w", "x", "y", "z", "{", "|", "}", "~" >>

\* ord(c) of an ASCII character written as a one-character string
CodePoint(c) ==
    CASE c = "\t" -> 9
      [] c = "\n" -> 10
      [] c = "\f" -> 12
      [] c = "\r" -> 13
      [] \E i \in 1..Len(AsciiUpper) : AsciiUpper[i] = c ->
             31 + (CHOOSE i \in 1..Len(AsciiUpper) : AsciiUpper[i] = c)
      [] \E i \in 1..Len(AsciiLower) : AsciiLower[i] = c ->
             96 + (CHOOSE i \in 1..Len(AsciiLower) : AsciiLower[i] = c)

\* ord, as a table
Code ==
    [ c \in { AsciiUpper[i] : i \in 1..Len(AsciiUpper) }
            \cup { AsciiLower[i] : i \in 1..Len(AsciiLower) }
            \cup { "\t", "\n", "\f", "\r" } |-> CodePoint(c) ]

\* the text of a literal
Chars(s) == [ i \in 1..Len(s) |-> Code[s[i]] ]

\* c lies in one of the ranges <<first, last>>
InRanges(c, ranges) ==
    \E r \in 1..Len(ranges) : ranges[r][1] <= c /\ c <= ranges[r][2]

\* the code points str.isspace() accepts (Unicode 14, the data of Python 3.11)
SpaceRanges ==
    <<
       <<9, 13>>, <<28, 32>>, <<133, 133>>, <<160, 160>>, <<5760, 5760>>,
       <<8192, 8202>>, <<8232, 8233>>, <<8239, 8239>>, <<8287, 8287>>,
       <<12288, 12288>> >>

\* the code points from 128 on that str.isalnum() accepts (Unicode 14)
WordRanges ==
    <<
       <<170, 170>>, <<178, 179>>, <<181, 181>>, <<185, 186>>, <<188, 190>>,
       <<192, 214>>, <<216, 246>>, <<248, 705>>, <<710, 721>>, <<736, 740>>,
       <<748, 748>>, <<750, 750>>, <<880, 884>>, <<886, 887>>, <<890, 893>>,
       <<895, 895>>, <<902, 902>>, <<904, 906>>, <<908, 908>>, <<910, 929>>,
       <<931, 1013>>, <<1015, 1153>>, <<1162, 1327>>, <<1329, 1366>>,
       <<1369, 1369>>, <<1376, 1416>>, <<1488, 1514>>, <<1519, 1522>>,
       <<1568, 1610>>, <<1632, 1641>>, <<1646, 1647>>, <<1649, 1747>>,
       <<1749, 1749>>, <<1765, 1766>>, <<1774, 1788>>, <<1791, 1791>>,
       <<1808, 1808>>, <<1810, 1839>>, <<1869, 1957>>, <<1969, 1969>>,
       <<1984, 2026>>, <<2036, 2037>>, <<2042, 2042>>, <<2048, 2069>>,
       <<2074, 2074>>, <<2084, 2084>>, <<2088, 2088>>, <<2112, 2136>>,
       <<2144, 2154>>, <<2160, 2183>>, <<2185, 2190>>, <<2208, 2249>>,
       <<2308, 2361>>, <<2365, 2365>>, <<2384, 2384>>, <<2392, 2401>>,
       <<2406, 2415>>, <<2417, 2432>>, <<2437, 2444>>, <<2447, 2448>>,
       <<2451, 2472>>, <<2474, 2480>>, <<2482, 2482>>, <<2486, 2489>>,
       <<2493, 2493>>, <<2510, 2510>>, <<2524, 2525>>, <<2527, 2529>>,
       <<2534, 2545>>, <<2548, 2553>>, <<2556, 2556>>, <<2565, 2570>>,
       <<2575, 2576>>, <<2579, 2600>>, <<2602, 2608>>, <<2610, 2611>>,
       <<2613, 2614>>, <<2616, 2617>>, <<2649, 2652>>, <<2654, 2654>>,
       <<2662, 2671>>, <<2674, 2676>>, <<2693, 2701>>, <<2703, 2705>>,
       <<2707, 2728>>, <<2730, 2736>>, <<2738, 2739>>, <<2741, 2745>>,
       <<2749, 2749>>, <<2768, 2768>>, <<2784, 2785>>, <<2790, 2799>>,
       <<2809, 2809>>, <<2821, 2828>>, <<2831, 2832>>, <<2835, 2856>>,
       <<2858, 2864>>, <<2866, 2867>>, <<2869, 2873>>, <<2877, 2877>>,
       <<2908, 2909>>, <<2911, 2913>>, <<2918, 2927>>, <<2929, 2935>>,
       <<2947, 2947>>, <<2949, 2954>>, <<2958, 2960>>, <<2962, 2965>>,
       <<2969, 2970>>, <<2972, 2972>>, <<2974, 2975>>, <<2979, 2980>>,
       <<2984, 2986>>, <<2990, 3001>>, <<3024, 3024>>, <<3046, 3058>>,
       <<3077, 3084>>, <<3086, 3088>>, <<3090, 3112>>, <<3114, 3129>>,
       <<3133, 3133>>, <<3160, 3162>>, <<3165, 3165>>, <<3168, 3169>>,
       <<3174, 3183>>, <<3192, 3198>>, <<3200, 3200>>, <<3205, 3212>>,
       <<3214, 3216>>, <<3218, 3240>>, <<3242, 3251>>, <<3253, 3257>>,
       <<3261, 3261>>, <<3293, 3294>>, <<3296, 3297>>, <<3302, 3311>>,
       <<3313, 3314>>, <<3332, 3340>>, <<3342, 3344>>, <<3346, 3386>>,
       <<3389, 3389>>, <<3406, 3406>>, <<3412, 3414>>, <<3416, 3425>>,
       <<3430, 3448>>, <<3450, 3455>>, <<3461, 3478>>, <<3482, 3505>>,
       <<3507, 3515>>, <<3517, 3517>>, <<3520, 3526>>, <<3558, 3567>>,
       <<3585, 3632>>, <<3634, 3635>>, <<3648, 3654>>, <<3664, 3673>>,
       <<3713, 3714>>, <<3716, 3716>>, <<3718, 3722>>, <<3724, 3747>>,
       <<3749, 3749>>, <<3751, 3760>>, <<3762, 3763>>, <<3773, 3773>>,
       <<3776, 3780>>, <<3782, 3782>>, <<3792, 3801>>, <<3804, 3807>>,
       <<3840, 3840>>, <<3872, 3891>>, <<3904, 3911>>, <<3913, 3948>>,
       <<3976, 3980>>, <<4096, 4138>>, <<4159, 4169>>, <<4176, 4181>>,
       <<4186, 4189>>, <<4193, 4193>>, <<4197, 4198>>, <<4206, 4208>>,
       <<4213, 4225>>, <<4238, 4238>>, <<4240, 4249>>, <<4256, 4293>>,
       <<4295, 4295>>, <<4301, 4301>>, <<4304, 4346>>, <<4348, 4680>>,
       <<4682, 4685>>, <<4688, 4694>>, <<4696, 4696>>, <<4698, 4701>>,
       <<4704, 4744>>, <<4746, 4749>>, <<4752, 4784>>, <<4786, 4789>>,
       <<4792, 4798>>, <<4800, 4800>>, <<4802, 4805>>, <<4808, 4822>>,
       <<4824, 4880>>, <<4882, 4885>>, <<4888, 4954>>, <<4969, 4988>>,
       <<4992, 5007>>, <<5024, 5109>>, <<5112, 5117>>, <<5121, 5740>>,
       <<5743, 5759>>, <<5761, 5786>>, <<5792, 5866>>, <<5870, 5880>>,
       <<5888, 5905>>, <<5919, 5937>>, <<5952, 5969>>, <<5984, 5996>>,
       <<5998, 6000>>, <<6016, 6067>>, <<6103, 6103>>, <<6108, 6108>>,
       <<6112, 6121>>, <<6128, 6137>>, <<6160, 6169>>, <<6176, 6264>>,
       <<6272, 6276>>, <<6279, 6312>>, <<6314, 6314>>, <<6320, 6389>>,
       <<6400, 6430>>, <<6470, 6509>>, <<6512, 6516>>, <<6528, 6571>>,
       <<6576, 6601>>, <<6608, 6618>>, <<6656, 6678>>, <<6688, 6740>>,
       <<6784, 6793>>, <<6800, 6809>>, <<6823, 6823>>, <<6917, 6963>>,
       <<6981, 6988>>, <<6992, 7001>>, <<7043, 7072>>, <<7086, 7141>>,
       <<7168, 7203>>, <<7232, 7241>>, <<7245, 7293>>, <<7296, 7304>>,
       <<7312, 7354>>, <<7357, 7359>>, <<7401, 7404>>, <<7406, 7411>>,
       <<7413, 7414>>, <<7418, 7418>>, <<7424, 7615>>, <<7680, 7957>>,
       <<7960, 7965>>, <<7968, 8005>>, <<8008, 8013>>, <<8016, 8023>>,
       <<8025, 8025>>, <<8027, 8027>>, <<8029, 8029>>, <<8031, 8061>>,
       <<8064, 8116>>, <<8118, 8124>>, <<8126, 8126>>, <<8130, 8132>>,
       <<8134, 8140>>, <<8144, 8147>>, <<8150, 8155>>, <<8160, 8172>>,
       <<8178, 8180>>, <<8182, 8188>>, <<8304, 8305>>, <<8308, 8313>>,
       <<8319, 8329>>, <<8336, 8348>>, <<8450, 8450>>, <<8455, 8455>>,
       <<8458, 8467>>, <<8469, 8469>>, <<8473, 8477>>, <<8484, 8484>>,
       <<8486, 8486>>, <<8488, 8488>>, <<8490, 8493>>, <<8495, 8505>>,
       <<8508, 8511>>, <<8517, 8521>>, <<8526, 8526>>, <<8528, 8585>>,
       <<9312, 9371>>, <<9450, 9471>>, <<10102, 10131>>, <<11264, 11492>>,
       <<11499, 11502>>, <<11506, 11507>>, <<11517, 11517>>,
       <<11520, 11557>>, <<11559, 11559>>, <<11565, 11565>>,
       <<11568, 11623>>, <<11631, 11631>>, <<11648, 11670>>,
       <<11680, 11686>>, <<11688, 11694>>, <<11696, 11702>>,
       <<11704, 11710>>, <<11712, 11718>>, <<11720, 11726>>,
       <<11728, 11734>>, <<11736, 11742>>, <<11823, 11823>>,
       <<12293, 12295>>, <<12321, 12329>>, <<12337, 12341>>,
       <<12344, 12348>>, <<12353, 12438>>, <<12445, 12447>>,
       <<12449, 12538>>, <<12540, 12543>>, <<12549, 12591>>,
       <<12593, 12686>>, <<12690, 12693>>, <<12704, 12735>>,
       <<12784, 12799>>, <<12832, 12841>>, <<12872, 12879>>,
       <<12881, 12895>>, <<12928, 12937>>, <<12977, 12991>>,
       <<13312, 19903>>, <<19968, 42124>>, <<42192, 42237>>,
       <<42240, 42508>>, <<42512, 42539>>, <<42560, 42606>>,
       <<42623, 42653>>, <<42656, 42735>>, <<42775, 42783>>,
       <<42786, 42888>>, <<42891, 42954>>, <<42960, 42961>>,
       <<42963, 42963>>, <<42965, 42969>>, <<42994, 43009>>,
       <<43011, 43013>>, <<43015, 43018>>, <<43020, 43042>>,
       <<43056, 43061>>, <<43072, 43123>>, <<43138, 43187>>,
       <<43216, 43225>>, <<43250, 43255>>, <<43259, 43259>>,
       <<43261, 43262>>, <<43264, 43301>>, <<43312, 43334>>,
       <<43360, 43388>>, <<43396, 43442>>, <<43471, 43481>>,
       <<43488, 43492>>, <<43494, 43518>>, <<43520, 43560>>,
       <<43584, 43586>>, <<43588, 43595>>, <<43600, 43609>>,
       <<43616, 43638>>, <<43642, 43642>>, <<43646, 43695>>,
       <<43697, 43697>>, <<43701, 43702>>, <<43705, 43709>>,
       <<43712, 43712>>, <<43714, 43714>>, <<43739, 43741>>,
       <<43744, 43754>>, <<43762, 43764>>, <<43777, 43782>>,
       <<43785, 43790>>, <<43793, 43798>>, <<43808, 43814>>,
       <<43816, 43822>>, <<43824, 43866>>, <<43868, 43881>>,
       <<43888, 44002>>, <<44016, 44025>>, <<44032, 55203>>,
       <<55216, 55238>>, <<55243, 55291>>, <<63744, 64109>>,
       <<64112, 64217>>, <<64256, 64262>>, <<64275, 64279>>,
       <<64285, 64285>>, <<64287, 64296>>, <<64298, 64310>>,
       <<64312, 64316>>, <<64318, 64318>>, <<64320, 64321>>,
       <<64323, 64324>>, <<64326, 64433>>, <<64467, 64829>>,
       <<64848, 64911>>, <<64914, 64967>>, <<65008, 65019>>,
       <<65136, 65140>>, <<65142, 65276>>, <<65296, 65305>>,
       <<65313, 65338>>, <<65345, 65370>>, <<65382, 65470>>,
       <<65474, 65479>>, <<65482, 65487>>, <<65490, 65495>>,
       <<65498, 65500>>, <<65536, 65547>>, <<65549, 65574>>,
       <<65576, 65594>>, <<65596, 65597>>, <<65599, 65613>>,
       <<65616, 65629>>, <<65664, 65786>>, <<65799, 65843>>,
       <<65856, 65912>>, <<65930, 65931>>, <<66176, 66204>>,
       <<66208, 66256>>, <<66273, 66299>>, <<66304, 66339>>,
       <<66349, 66378>>, <<66384, 66421>>, <<66432, 66461>>,
       <<66464, 66499>>, <<66504, 66511>>, <<66513, 66517>>,
       <<66560, 66717>>, <<66720, 66729>>, <<66736, 66771>>,
       <<66776, 66811>>, <<66816, 66855>>, <<66864, 66915>>,
       <<66928, 66938>>, <<66940, 66954>>, <<66956, 66962>>,
       <<66964, 66965>>, <<66967, 66977>>, <<66979, 66993>>,
       <<66995, 67001>>, <<67003, 67004>>, <<67072, 67382>>,
       <<67392, 67413>>, <<67424, 67431>>, <<67456, 67461>>,
       <<67463, 67504>>, <<67506, 67514>>, <<67584, 67589>>,
       <<67592, 67592>>, <<67594, 67637>>, <<67639, 67640>>,
       <<67644, 67644>>, <<67647, 67669>>, <<67672, 67702>>,
       <<67705, 67742>>, <<67751, 67759>>, <<67808, 67826>>,
       <<67828, 67829>>, <<67835, 67867>>, <<67872, 67897>>,
       <<67968, 68023>>, <<68028, 68047>>, <<68050, 68096>>,
       <<68112, 68115>>, <<68117, 68119>>, <<68121, 68149>>,
       <<68160, 68168>>, <<68192, 68222>>, <<68224, 68255>>,
       <<68288, 68295>>, <<68297, 68324>>, <<68331, 68335>>,
       <<68352, 68405>>, <<68416, 68437>>, <<68440, 68466>>,
       <<68472, 68497>>, <<68521, 68527>>, <<68608, 68680>>,
       <<68736, 68786>>, <<68800, 68850>>, <<68858, 68899>>,
       <<68912, 68921>>, <<69216, 69246>>, <<69248, 69289>>,
       <<69296, 69297>>, <<69376, 69415>>, <<69424, 69445>>,
       <<69457, 69460>>, <<69488, 69505>>, <<69552, 69579>>,
       <<69600, 69622>>, <<69635, 69687>>, <<69714, 69743>>,
       <<69745, 69746>>, <<69749, 69749>>, <<69763, 69807>>,
       <<69840, 69864>>, <<69872, 69881>>, <<69891, 69926>>,
       <<69942, 69951>>, <<69956, 69956>>, <<69959, 69959>>,
       <<69968, 70002>>, <<70006, 70006>>, <<70019, 70066>>,
       <<70081, 70084>>, <<70096, 70106>>, <<70108, 70108>>,
       <<70113, 70132>>, <<70144, 70161>>, <<70163, 70187>>,
       <<70272, 70278>>, <<70280, 70280>>, <<70282, 70285>>,
       <<70287, 70301>>, <<70303, 70312>>, <<70320, 70366>>,
       <<70384, 70393>>, <<70405, 70412>>, <<70415, 70416>>,
       <<70419, 70440>>, <<70442, 70448>>, <<70450, 70451>>,
       <<70453, 70457>>, <<70461, 70461>>, <<70480, 70480>>,
       <<70493, 70497>>, <<70656, 70708>>, <<70727, 70730>>,
       <<70736, 70745>>, <<70751, 70753>>, <<70784, 70831>>,
       <<70852, 70853>>, <<70855, 70855>>, <<70864, 70873>>,
       <<71040, 71086>>, <<71128, 71131>>, <<71168, 71215>>,
       <<71236, 71236>>, <<71248, 71257>>, <<71296, 71338>>,
       <<71352, 71352>>, <<71360, 71369>>, <<71424, 71450>>,
       <<71472, 71483>>, <<71488, 71494>>, <<71680, 71723>>,
       <<71840, 71922>>, <<71935, 71942>>, <<71945, 71945>>,
       <<71948, 71955>>, <<71957, 71958>>, <<71960, 71983>>,
       <<71999, 71999>>, <<72001, 72001>>, <<72016, 72025>>,
       <<72096, 72103>>, <<72106, 72144>>, <<72161, 72161>>,
       <<72163, 72163>>, <<72192, 72192>>, <<72203, 72242>>,
       <<72250, 72250>>, <<72272, 72272>>, <<72284, 72329>>,
       <<72349, 72349>>, <<72368, 72440>>, <<72704, 72712>>,
       <<72714, 72750>>, <<72768, 72768>>, <<72784, 72812>>,
       <<72818, 72847>>, <<72960, 72966>>, <<72968, 72969>>,
       <<72971, 73008>>, <<73030, 73030>>, <<73040, 73049>>,
       <<73056, 73061>>, <<73063, 73064>>, <<73066, 73097>>,
       <<73112, 73112>>, <<73120, 73129>>, <<73440, 73458>>,
       <<73648, 73648>>, <<73664, 73684>>, <<73728, 74649>>,
       <<74752, 74862>>, <<74880, 75075>>, <<77712, 77808>>,
       <<77824, 78894>>, <<82944, 83526>>, <<92160, 92728>>,
       <<92736, 92766>>, <<92768, 92777>>, <<92784, 92862>>,
       <<92864, 92873>>, <<92880, 92909>>, <<92928, 92975>>,
       <<92992, 92995>>, <<93008, 93017>>, <<93019, 93025>>,
       <<93027, 93047>>, <<93053, 93071>>, <<93760, 93846>>,
       <<93952, 94026>>, <<94032, 94032>>, <<94099, 94111>>,
       <<94176, 94177>>, <<94179, 94179>>, <<94208, 100343>>,
       <<100352, 101589>>, <<101632, 101640>>, <<110576, 110579>>,
       <<110581, 110587>>, <<110589, 110590>>, <<110592, 110882>>,
       <<110928, 110930>>, <<110948, 110951>>, <<110960, 111355>>,
       <<113664, 113770>>, <<113776, 113788>>, <<113792, 113800>>,
       <<113808, 113817>>, <<119520, 119539>>, <<119648, 119672>>,
       <<119808, 119892>>, <<119894, 119964>>, <<119966, 119967>>,
       <<119970, 119970>>, <<119973, 119974>>, <<119977, 119980>>,
       <<119982, 119993>>, <<119995, 119995>>, <<119997, 120003>>,
       <<120005, 120069>>, <<120071, 120074>>, <<120077, 120084>>,
       <<120086, 120092>>, <<120094, 120121>>, <<120123, 120126>>,
       <<120128, 120132>>, <<120134, 120134>>, <<120138, 120144>>,
       <<120146, 120485>>, <<120488, 120512>>, <<120514, 120538>>,
       <<120540, 120570>>, <<120572, 120596>>, <<120598, 120628>>,
       <<120630, 120654>>, <<120656, 120686>>, <<120688, 120712>>,
       <<120714, 120744>>, <<120746, 120770>>, <<120772, 120779>>,
       <<120782, 120831>>, <<122624, 122654>>, <<123136, 123180>>,
       <<123191, 123197>>, <<123200, 123209>>, <<123214, 123214>>,
       <<123536, 123565>>, <<123584, 123627>>, <<123632, 123641>>,
       <<124896, 124902>>, <<124904, 124907>>, <<124909, 124910>>,
       <<124912, 124926>>, <<124928, 125124>>, <<125127, 125135>>,
       <<125184, 125251>>, <<125259, 125259>>, <<125264, 125273>>,
       <<126065, 126123>>, <<126125, 126127>>, <<126129, 126132>>,
       <<126209, 126253>>, <<126255, 126269>>, <<126464, 126467>>,
       <<126469, 126495>>, <<126497, 126498>>, <<126500, 126500>>,
       <<126503, 126503>>, <<126505, 126514>>, <<126516, 126519>>,
       <<126521, 126521>>, <<126523, 126523>>, <<126530, 126530>>,
       <<126535, 126535>>, <<126537, 126537>>, <<126539, 126539>>,
       <<126541, 126543>>, <<126545, 126546>>, <<126548, 126548>>,
       <<126551, 126551>>, <<126553, 126553>>, <<126555, 126555>>,
       <<126557, 126557>>, <<126559, 126559>>, <<126561, 126562>>,
       <<126564, 126564>>, <<126567, 126570>>, <<126572, 126578>>,
       <<126580, 126583>>, <<126585, 126588>>, <<126590, 126590>>,
       <<126592, 126601>>, <<126603, 126619>>, <<126625, 126627>>,
       <<126629, 126633>>, <<126635, 126651>>, <<127232, 127244>>,
       <<130032, 130041>>, <<131072, 173791>>, <<173824, 177976>>,
       <<177984, 178205>>, <<178208, 183969>>, <<183984, 191456>>,
       <<194560, 195101>>, <<196608, 201546>> >>

\* \s of a str pattern, and the characters str.strip() removes
IsSpace(c) == InRanges(c, SpaceRanges)

\* \w of a str pattern: "_" and what str.isalnum() accepts
IsWord(c) ==
    IF c < 128
    THEN \/ 48 <= c /\ c <= 57
         \/ 65 <= c /\ c <= 90
         \/ c = 95
         \/ 97 <= c /\ c <= 122
    ELSE InRanges(c, WordRanges)

\* the single characters the patterns and the line handling name
Chr ==
    [ lf |-> 10, cr |-> 13, quote |-> 34, apostrophe |-> 39, open |-> 40,
      close |-> 41, slash |-> 47, colon |-> 58, brace |-> 125 ]

\* the literals of the patterns and of the substring tests
Lit ==
    [ mcp_tool     |-> Chars(<<"@", "m", "c", "p", ".", "t", "o", "o", "l", "(">>),
      server_tool  |-> Chars(<<"@", "s", "e", "r", "v", "e", "r", ".", "t", "o", "o", "l", "(">>),
      tool         |-> Chars(<<"@", "t", "o", "o", "l", "(">>),
      name_eq      |-> Chars(<<"n", "a", "m", "e", "=">>),
      async        |-> Chars(<<"a", "s", "y", "n", "c">>),
      def          |-> Chars(<<"d", "e", "f">>),
      arrow        |-> Chars(<<"-", ">">>),
      triple_quote |-> Chars(<<"\"", "\"", "\"">>),
      ts_tool      |-> Chars(<<"@", "T", "o", "o", "l", "(", "{">>),
      function     |-> Chars(<<"f", "u", "n", "c", "t", "i", "o", "n">>),
      handler      |-> Chars(<<"s", "e", "t", "R", "e", "q", "u", "e", "s", "t", "H", "a", "n", "d", "l", "e", "r">>),
      schema       |-> Chars(<<"L", "i", "s", "t", "T", "o", "o", "l", "s", "R", "e", "q", "u", "e", "s", "t", "S", "c", "h", "e", "m", "a">>),
      name_colon   |-> Chars(<<"n", "a", "m", "e", ":">>),
      description  |-> Chars(<<"d", "e", "s", "c", "r", "i", "p", "t", "i", "o", "n", ":">>),
      mcp          |-> Chars(<<"m", "c", "p">>),
      fastmcp      |-> Chars(<<"f", "a", "s", "t", "m", "c", "p">>),
      protocol     |-> Chars(<<"m", "o", "d", "e", "l", "c", "o", "n", "t", "e", "x", "t", "p", "r", "o", "t", "o", "c", "o", "l">>),
      py           |-> Chars(<<".", "p", "y">>),
      ts           |-> Chars(<<".", "t", "s">>),
      tsx          |-> Chars(<<".", "t", "s", "x">>) ]

(***************************************************************************)
(* tool_detector.py: the regular expressions, each matched as Python's re  *)
(* matches it.  A match is [start, end, groups]: `start` the index of its  *)
(* first character, `end` the index after its last, `groups` its groups,   *)
(* <<>> for a group that took no part (None).                              *)
(***************************************************************************)
\* the value of body with its parameter bound to value: a local name whose
\* value is found once
With(value, body(_)) == body(value)

\* ["']
IsQuote(c) == c \in {Chr.quote, Chr.apostrophe}

\* \s* from i: the index of the first character that is no space
RECURSIVE SkipSpace(_, _)
SkipSpace(s, i) ==
    IF i <= Len(s) /\ IsSpace(s[i]) THEN SkipSpace(s, i + 1) ELSE i

\* \w* from i
RECURSIVE SkipWord(_, _)
SkipWord(s, i) ==
    IF i <= Len(s) /\ IsWord(s[i]) THEN SkipWord(s, i + 1) ELSE i

\* [^c]* from i
RECURSIVE SkipTo(_, _, _)
SkipTo(s, i, c) ==
    IF i <= Len(s) /\ s[i] # c THEN SkipTo(s, i + 1, c) ELSE i

\* [^"']* from i
RECURSIVE SkipToQuote(_, _)
SkipToQuote(s, i) ==
    IF i <= Len(s) /\ ~IsQuote(s[i]) THEN SkipToQuote(s, i + 1) ELSE i

CharAt(s, i, c) == i <= Len(s) /\ s[i] = c

SpaceAt(s, i) == i <= Len(s) /\ IsSpace(s[i])

WordAt(s, i) == i <= Len(s) /\ IsWord(s[i])

NoMatch == [start |-> 0, end |-> 0, groups |-> <<>>]

\* ["']([^"']+)["'] at i: <<the group, the index after the closing quote>>,
\* or <<>> when it does not match
QuotedAt(s, i) ==
    With(SkipToQuote(s, i + 1), LAMBDA close :
        IF i <= Len(s) /\ IsQuote(s[i]) /\ close > i + 1 /\ close <= Len(s)
        THEN << SubSeq(s, i + 1, close - 1), close + 1 >>
        ELSE <<>> )

\* \s*\)\s*(?:async\s+)?def\s+(\w+) at i: <<the function name, the end>>
DefAfterDecorator(s, i) ==
    With(SkipSpace(s, i), LAMBDA paren :
    With(SkipSpace(s, paren + 1), LAMBDA kw :
    With(IF LitAt(s, kw, Lit.async) /\ SpaceAt(s, kw + 5)
         THEN SkipSpace(s, kw + 5)
         ELSE kw, LAMBDA def :
    With(SkipSpace(s, def + 3), LAMBDA name :
    With(SkipWord(s, name), LAMBDA stop :
        IF /\ CharAt(s, paren, Chr.close)
           /\ LitAt(s, def, Lit.def)
           /\ name > def + 3
           /\ stop > name
        THEN << SubSeq(s, name, stop - 1), stop >>
        ELSE <<>> )))))

\* \s*(?:name=["']([^"']+)["'])?\s*\)\s*(?:async\s+)?def\s+(\w+) at i, the
\* index after the decorator's "(": the part the two Python patterns share
DecoratorTail(s, start, i) ==
    With(SkipSpace(s, i), LAMBDA arg :
    With(IF LitAt(s, arg, Lit.name_eq) THEN QuotedAt(s, arg + 5) ELSE <<>>,
         LAMBDA quoted :
    With(DefAfterDecorator(s, IF quoted = <<>> THEN arg ELSE quoted[2]),
         LAMBDA def :
        IF def = <<>> THEN NoMatch
        ELSE [ start  |-> start,
               end    |-> def[2],
               groups |-> << IF quoted = <<>> THEN <<>> ELSE quoted[1], def[1] >> ] )))

\* PYTHON_TOOL_PATTERNS[0] at i:
\* @(?:mcp|server)\.tool\(\s*(?:name=["']([^"']+)["'])?\s*\)\s*(?:async\s+)?def\s+(\w+)
PyPattern1At(s, i) ==
    IF LitAt(s, i, Lit.mcp_tool) THEN DecoratorTail(s, i, i + 10)
    ELSE IF LitAt(s, i, Lit.server_tool) THEN DecoratorTail(s, i, i + 13)
    ELSE NoMatch

\* PYTHON_TOOL_PATTERNS[1] at i:
\* @tool\(\s*(?:name=["']([^"']+)["'])?\s*\)\s*(?:async\s+)?def\s+(\w+)
PyPattern2At(s, i) ==
    IF LitAt(s, i, Lit.tool) THEN DecoratorTail(s, i, i + 6) ELSE NoMatch

\* \s*:\s*"""([^"]+)""" at i: <<the docstring, the end>>
DocstringAt(s, i) ==
    With(SkipSpace(s, i), LAMBDA colon :
    With(SkipSpace(s, colon + 1), LAMBDA open :
    With(SkipTo(s, open + 3, Chr.quote), LAMBDA close :
        IF /\ CharAt(s, colon, Chr.colon)
           /\ LitAt(s, open, Lit.triple_quote)
           /\ close > open + 3
           /\ LitAt(s, close, Lit.triple_quote)
        THEN << SubSeq(s, open + 3, close - 1), close + 3 >>
        ELSE <<>> )))

\* ->.*? followed by the docstring part, DOTALL: the first index from i on
\* where the docstring part matches
LazyDocstring(s, i) ==
    With({ j \in i..Len(s) : DocstringAt(s, j) # <<>> }, LAMBDA at :
        IF at = {} THEN <<>> ELSE DocstringAt(s, Min(at)) )

\* the docstring pattern at i:
\* def\s+(\w+)\s*\([^)]*\)\s*(?:->.*?)?\s*:\s*"""([^"]+)"""
DocPatternAt(s, i) ==
    With(SkipSpace(s, i + 3), LAMBDA name :
    With(SkipWord(s, name), LAMBDA stop :
    With(SkipSpace(s, stop), LAMBDA open :
    With(SkipTo(s, open + 1, Chr.close), LAMBDA close :
    With(SkipSpace(s, close + 1), LAMBDA arrow :
    With(IF LitAt(s, arrow, Lit.arrow)
         THEN LazyDocstring(s, arrow + 2)
         ELSE DocstringAt(s, arrow), LAMBDA doc :
        IF /\ LitAt(s, i, Lit.def)
           /\ name > i + 3
           /\ stop > name
           /\ CharAt(s, open, Chr.open)
           /\ close <= Len(s)
           /\ doc # <<>>
        THEN [ start |-> i, end |-> doc[2],
               groups |-> << SubSeq(s, name, stop - 1), doc[1] >> ]
        ELSE NoMatch ))))))

\* (?:function\s+)?(\w+) at i: <<the name, the end>>
NameAfterFunction(s, i) ==
    With(SkipSpace(s, i + 8), LAMBDA name :
    With(IF LitAt(s, i, Lit.function) /\ SpaceAt(s, i + 8) /\ WordAt(s, name)
         THEN name
         ELSE i, LAMBDA word :
    With(SkipWord(s, word), LAMBDA stop :
        IF stop > word THEN << SubSeq(s, word, stop - 1), stop >> ELSE <<>> )))

\* (?:async\s+)?(?:function\s+)?(\w+) at i: the alternatives in the order
\* the engine tries them
NameAfterAsync(s, i) ==
    With(IF LitAt(s, i, Lit.async) /\ SpaceAt(s, i + 5)
         THEN NameAfterFunction(s, SkipSpace(s, i + 5))
         ELSE <<>>, LAMBDA name :
        IF name # <<>> THEN name ELSE NameAfterFunction(s, i) )

\* TYPESCRIPT_TOOL_PATTERNS[0] at i:
\* @Tool\({[^}]*}\)\s*(?:async\s+)?(?:function\s+)?(\w+)
TsPattern1At(s, i) ==
    With(SkipTo(s, i + 7, Chr.brace), LAMBDA brace :
    With(NameAfterAsync(s, SkipSpace(s, brace + 2)), LAMBDA name :
        IF /\ LitAt(s, i, Lit.ts_tool)
           /\ brace <= Len(s)
           /\ CharAt(s, brace + 1, Chr.close)
           /\ name # <<>>
        THEN [ start |-> i, end |-> name[2], groups |-> << name[1] >> ]
        ELSE NoMatch ))

\* name:\s*["']([^"']+)["'] at i: <<the group, the end>>
NameFieldAt(s, i) ==
    IF LitAt(s, i, Lit.name_colon) THEN QuotedAt(s, SkipSpace(s, i + 5)) ELSE <<>>

\* .*? followed by the name field, DOTALL
LazyNameField(s, i) ==
    With({ j \in i..Len(s) : NameFieldAt(s, j) # <<>> }, LAMBDA at :
        IF at = {} THEN <<>> ELSE NameFieldAt(s, Min(at)) )

\* TYPESCRIPT_TOOL_PATTERNS[1] at i:
\* setRequestHandler\s*\(\s*ListToolsRequestSchema[^)]*\)\s*.*?name:\s*["']([^"']+)["']
TsPattern2At(s, i) ==
    With(SkipSpace(s, i + 17), LAMBDA open :
    With(SkipSpace(s, open + 1), LAMBDA schema :
    With(SkipTo(s, schema + 22, Chr.close), LAMBDA close :
    With(LazyNameField(s, close + 1), LAMBDA field :
        IF /\ LitAt(s, i, Lit.handler)
           /\ CharAt(s, open, Chr.open)
           /\ LitAt(s, schema, Lit.schema)
           /\ close <= Len(s)
           /\ field # <<>>
        THEN [ start |-> i, end |-> field[2], groups |-> << field[1] >> ]
        ELSE NoMatch ))))

\* the indexes where \s* (least = 0) or \s+ (least = 1) may stop when it
\* starts at i: the engine gives white space back to what follows
SpaceStops(s, i, least) == (i + least)..SkipSpace(s, i)

\* (?:async\s+)?(?:function\s+)?{re.escape(tool_name)} at i; the name is
\* matched literally and may itself begin with white space
ToolNameAfterAsync(s, i, tool_name) ==
    \E j \in {i} \cup IF LitAt(s, i, Lit.async) THEN SpaceStops(s, i + 5, 1) ELSE {} :
        \/ /\ LitAt(s, j, Lit.function)
           /\ \E k \in SpaceStops(s, j + 8, 1) : LitAt(s, k, tool_name)
        \/ LitAt(s, j, tool_name)

\* description:\s*["']([^"']+)["'][^}]*}\)\s*(?:async\s+)?(?:function\s+)?{tool_name}
\* at i: the description, or <<>>
DescriptionFieldAt(s, i, tool_name) ==
    With(QuotedAt(s, SkipSpace(s, i + 12)), LAMBDA quoted :
        IF ~LitAt(s, i, Lit.description) \/ quoted = <<>> THEN <<>>
        ELSE With(SkipTo(s, quoted[2], Chr.brace), LAMBDA brace :
                 IF /\ brace <= Len(s)
                    /\ CharAt(s, brace + 1, Chr.close)
                    /\ \E j \in SpaceStops(s, brace + 2, 0) :
                           ToolNameAfterAsync(s, j, tool_name)
                 THEN quoted[1]
                 ELSE <<>> ))

\* [^}]* is greedy: of the places in from..to where the rest matches, the
\* last one
RECURSIVE LastDescription(_, _, _, _)
LastDescription(s, from, to, tool_name) ==
    IF to < from THEN <<>>
    ELSE With(DescriptionFieldAt(s, to, tool_name), LAMBDA description :
             IF description # <<>> THEN description
             ELSE LastDescription(s, from, to - 1, tool_name) )

\* the description pattern at i:
\* @Tool\({[^}]*description:\s*["']([^"']+)["'][^}]*}\)\s*(?:async\s+)?(?:function\s+)?{tool_name}
DescriptionAt(s, i, tool_name) ==
    IF LitAt(s, i, Lit.ts_tool)
    THEN LastDescription(s, i + 7, SkipTo(s, i + 7, Chr.brace), tool_name)
    ELSE <<>>

\* re.search of the description pattern from i on: group 1 of the first
\* match, or <<>>
SearchDescription(s, i, tool_name) ==
    With({ j \in i..Len(s) : DescriptionAt(s, j, tool_name) # <<>> }, LAMBDA at :
        IF at = {} THEN <<>> ELSE DescriptionAt(s, Min(at), tool_name) )

\* the pattern of the given name at i
MatchAt(pattern, s, i) ==
    CASE pattern = "py1" -> PyPattern1At(s, i)
      [] pattern = "py2" -> PyPattern2At(s, i)
      [] pattern = "doc" -> DocPatternAt(s, i)
      [] pattern = "ts1" -> TsPattern1At(s, i)
      [] pattern = "ts2" -> TsPattern2At(s, i)

\* pattern.finditer(content): the matches from left to right, each search
\* starting where the last match ended
RECURSIVE FindIter(_, _, _)
FindIter(pattern, s, i) ==
    With({ j \in i..Len(s) : MatchAt(pattern, s, j) # NoMatch }, LAMBDA at :
        IF at = {} THEN <<>>
        ELSE With(MatchAt(pattern, s, Min(at)), LAMBDA match :
                 << match >> \o FindIter(pattern, s, match.end) ))

PYTHON_TOOL_PATTERNS == << "py1", "py2" >>

TYPESCRIPT_TOOL_PATTERNS == << "ts1", "ts2" >>

(***************************************************************************)
(* tool_detector.py: ToolDetector.                                         *)
(***************************************************************************)
\* MCPTool(name, file_path, description, line_number)
MCPTool(name, file_path, description, line_number) ==
    [ name |-> name, file_path |-> file_path,
      description |-> description, line_number |-> line_number ]

\* self.repo_path
RepoPath == Chars(<<"/", "r", "e", "p", "o">>)

\* a path rglob yields: repo_path / relative
FullPath(relative) == RepoPath \o << Chr.slash >> \o relative

\* str(file_path.relative_to(self.repo_path))
RelativeTo(file_path, base) == SubSeq(file_path, Len(base) + 2, Len(file_path))

\* a file is [readable, frags]: its characters are those of its fragments
RECURSIVE FileText(_)
FileText(frags) ==
    IF frags = <<>> THEN <<>> ELSE frags[1].text \o FileText(Tail(frags))

\* file_path.read_text(...): the characters of the file, read in text mode,
\* where "\r\n" and a lone "\r" both arrive as "\n"
Text(frags) ==
    With(FileText(frags), LAMBDA raw :
    With(SelectSeq([ i \in 1..Len(raw) |-> i ],
                   LAMBDA i : ~(raw[i] = Chr.lf /\ i > 1 /\ raw[i - 1] = Chr.cr)),
         LAMBDA kept :
        [ k \in 1..Len(kept) |->
            IF raw[kept[k]] = Chr.cr THEN Chr.lf ELSE raw[kept[k]] ] ))

\* str.strip()
Strip(s) ==
    With({ i \in 1..Len(s) : ~IsSpace(s[i]) }, LAMBDA keep :
        IF keep = {} THEN <<>> ELSE SubSeq(s, Min(keep), Max(keep)) )

\* s.split('\n')[0]
FirstLine(s) == SubSeq(s, 1, SkipTo(s, 1, Chr.lf) - 1)

\* lines 88-90: a later docstring of the same function name replaces an
\* earlier one
RECURSIVE DocstringsOf(_, _, _)
DocstringsOf(matches, i, docstrings) ==
    IF i > Len(matches) THEN docstrings
    ELSE DocstringsOf(matches, i + 1,
             DictSet(docstrings, matches[i].groups[1],
                     FirstLine(Strip(matches[i].groups[2]))))

\* lines 86-90
Docstrings(content) == DocstringsOf(FindIter("doc", content, 1), 1, <<>>)

\* content[:match.start()].count('\n') + 1
LineNumber(content, start) ==
    Cardinality({ k \in 1..(start - 1) : content[k] = Chr.lf }) + 1

\* a slip: the function's identifier is used even when the decorator names
\* the tool
ToolNameIgnoringExplicit(groups) == groups[Len(groups)]

\* lines 96-101: tool_name
ToolName(groups) ==
    IF Len(groups) = 2 /\ groups[1] # <<>> THEN groups[1] ELSE groups[Len(groups)]

\* lines 96-102: func_name
FuncName(groups) ==
    IF Len(groups) = 2 /\ groups[1] # <<>> THEN groups[2] ELSE groups[Len(groups)]

\* lines 94-117: the tools of the matches of one pattern
PythonToolsOfPattern(pattern, content, docstrings, relative_path) ==
    With(FindIter(pattern, content, 1), LAMBDA matches :
        [ i \in 1..Len(matches) |->
            MCPTool(ToolName(matches[i].groups),
                    relative_path,
                    DictGet(docstrings, FuncName(matches[i].groups), <<>>),
                    LineNumber(content, matches[i].start)) ] )

\* lines 93-117: for pattern in self.PYTHON_TOOL_PATTERNS
RECURSIVE PythonPatternLoop(_, _, _, _, _)
PythonPatternLoop(patterns, i, content, docstrings, relative_path) ==
    IF i > Len(patterns) THEN <<>>
    ELSE PythonToolsOfPattern(patterns[i], content, docstrings, relative_path)
         \o PythonPatternLoop(patterns, i + 1, content, docstrings, relative_path)

\* a slip: the patterns are tried last to first
PythonToolsLastPatternFirst(content, relative_path) ==
    PythonPatternLoop(<< PYTHON_TOOL_PATTERNS[2], PYTHON_TOOL_PATTERNS[1] >>, 1,
                      content, Docstrings(content), relative_path)

\* lines 85-117: the tools a readable Python file adds
PythonTools(content, relative_path) ==
    PythonPatternLoop(PYTHON_TOOL_PATTERNS, 1, content, Docstrings(content), relative_path)

\* _detect_python_tools(file_path): self.tools afterwards.  read_text raises
\* for a file that cannot be read, and the except clause drops the exception
DetectPythonTools(tools, file_path, file) ==
    IF ~file.readable THEN tools
    ELSE tools \o PythonTools(Text(file.frags), RelativeTo(file_path, RepoPath))

\* lines 130-149: the tools of the matches of one pattern
TypescriptToolsOfPattern(pattern, content, relative_path) ==
    With(FindIter(pattern, content, 1), LAMBDA matches :
        [ i \in 1..Len(matches) |->
            MCPTool(matches[i].groups[1],
                    relative_path,
                    SearchDescription(content, 1, matches[i].groups[1]),
                    LineNumber(content, matches[i].start)) ] )

\* lines 129-149: for pattern in self.TYPESCRIPT_TOOL_PATTERNS
RECURSIVE TypescriptPatternLoop(_, _, _, _)
TypescriptPatternLoop(patterns, i, content, relative_path) ==
    IF i > Len(patterns) THEN <<>>
    ELSE TypescriptToolsOfPattern(patterns[i], content, relative_path)
         \o TypescriptPatternLoop(patterns, i + 1, content, relative_path)

\* _detect_typescript_tools(file_path): self.tools afterwards
DetectTypescriptTools(tools, file_path, file) ==
    IF ~file.readable THEN tools
    ELSE tools \o TypescriptPatternLoop(TYPESCRIPT_TOOL_PATTERNS, 1, Text(file.frags),
                                        RelativeTo(file_path, RepoPath))

\* lines 157-163: "true", "raise" (read_text of a file that cannot be read)
\* or "next" (go on to package.json)
RECURSIVE PythonDepFiles(_, _, _)
PythonDepFiles(python_dep_files, i, deps) ==
    IF i > Len(python_dep_files) THEN "next"
    ELSE LET file == deps[python_dep_files[i]]
         IN  IF ~file.exists THEN PythonDepFiles(python_dep_files, i + 1, deps)
             ELSE IF ~file.readable THEN "raise"
             ELSE IF Contains(file.text, Lit.mcp) \/ Contains(file.text, Lit.fastmcp)
             THEN "true"
             ELSE PythonDepFiles(python_dep_files, i + 1, deps)

\* lines 166-174: package.json is [exists, parses, dependencies,
\* devDependencies]; a text that json.loads rejects, or whose sections are
\* no objects, raises inside the try
PackageJsonHasMcp(package_json) ==
    /\ package_json.exists
    /\ package_json.parses
    /\ \E dep \in DictKeys(package_json.dependencies) \cup DictKeys(package_json.devDependencies) :
           Contains(dep, Lit.protocol) \/ Contains(dep, Lit.mcp)

\* _is_mcp_server(): "true", "false" or "raise"
IsMcpServer(deps, package_json) ==
    With(PythonDepFiles(<<"requirements.txt", "pyproject.toml", "Pipfile">>, 1, deps),
         LAMBDA python :
        IF python # "next" THEN python
        ELSE IF PackageJsonHasMcp(package_json) THEN "true"
        ELSE "false" )

\* lines 72-76
Placeholder ==
    MCPTool(Chars(<<"u", "n", "k", "n", "o", "w", "n">>), RepoPath, Chars(<<"M", "C", "P", " ", "s", "e", "r", "v", "e", "r", " ", "w", "i", "t", "h", " ", "u", "n", "d", "e", "t", "e", "c", "t", "e", "d", " ", "t", "o", "o", "l", "s">>), 0)

\* self.repo_path.rglob('*' + suffix): the files with the suffix, as paths
Rglob(files, suffix) ==
    { FullPath(relative) : relative \in { r \in DOMAIN files : EndsWith(r, suffix) } }

\* line 58: self.tools = []
ResetTools(tools) == <<>>


(***************************************************************************)
(* The inputs of the model.                                                *)
(***************************************************************************)
Acme == <<"a", "c", "m", "e">>

Api == <<"a", "p", "i">>

Web == <<"w", "e", "b">>

Osv == <<"o", "s", "v">>

ScannerRepo == <<"s", "c", "a", "n", "n", "e", "r">>

\* the repositories scanned: <<org_name, repo_name>>.  The per-repository
\* file of osv/scanner has the name of the temp file of the scanner
\* osv-scanner
Repositories == { <<Acme, Api>>, <<Acme, Web>>, <<Osv, ScannerRepo>> }

VulnCritical == << <<"severity", "CRITICAL">>, <<"fixed_version", "1.2">> >>

VulnLow == << <<"severity", "LOW">> >>

\* what one scanner run may report
ScanOutputs == { <<>>, << VulnCritical >>, << VulnLow, VulnLow >> }

\* mappings a caller may hand to save_aggregated_results, and that earlier
\* runs may have left in a per-repository file
SampleResults ==
    { << <<SCANNER_MAP[1], << VulnLow >> >> >>,
      << <<SCANNER_MAP[1], << VulnCritical >> >>, <<SCANNER_MAP[2], <<>> >> >> }

\* the directories at the start: some repositories have a file of an earlier
\* run, and no temp file is left
InitialDirs ==
    UNION { [ { PerRepoFileName(r[1], r[2]) : r \in R } -> { JsonDump(m) : m \in SampleResults } ]
            : R \in SUBSET { <<Acme, Api>>, <<Acme, Web>> } }

(***************************************************************************)
(* The source files of the model.  A file's text is made of fragments;     *)
(* each fragment says what it is, so that a claim can be stated on what    *)
(* the file holds and not on what the patterns find in it.                 *)
(***************************************************************************)
NoFrag ==
    [ kind |-> "none", pattern |-> 0, name |-> <<>>, ident |-> <<>>,
      inline |-> FALSE, doc |-> <<>>, text |-> <<>> ]

\* the first annotation shape, without a name
DecMcp ==
    [ NoFrag EXCEPT !.kind = "decorator", !.pattern = 1,
                    !.text = Chars(<<"@", "m", "c", "p", ".", "t", "o", "o", "l", "(", ")", "\n">>) ]

\* the first annotation shape on a server object, with an explicit name
DecServerNamed ==
    [ NoFrag EXCEPT !.kind = "decorator", !.pattern = 1, !.name = Chars(<<"y">>),
                    !.text = Chars(<<"@", "s", "e", "r", "v", "e", "r", ".", "t", "o", "o", "l", "(", "n", "a", "m", "e", "=", "\"", "y", "\"", ")", "\n">>) ]

\* the second annotation shape, without a name
DecTool ==
    [ NoFrag EXCEPT !.kind = "decorator", !.pattern = 2,
                    !.text = Chars(<<"@", "t", "o", "o", "l", "(", ")", "\n">>) ]

\* the second annotation shape, with an explicit name
DecToolNamed ==
    [ NoFrag EXCEPT !.kind = "decorator", !.pattern = 2, !.name = Chars(<<"x">>),
                    !.text = Chars(<<"@", "t", "o", "o", "l", "(", "n", "a", "m", "e", "=", "'", "x", "'", ")", "\n">>) ]

\* a function whose body is on the line of its signature
DefFInline ==
    [ NoFrag EXCEPT !.kind = "def", !.ident = Chars(<<"f">>), !.inline = TRUE,
                    !.text = Chars(<<"d", "e", "f", " ", "f", "(", ")", ":", " ", "p", "a", "s", "s", "\n">>) ]

\* a coroutine of the same identifier, with a return annotation
DefFAsync ==
    [ NoFrag EXCEPT !.kind = "def", !.ident = Chars(<<"f">>),
                    !.text = Chars(<<"a", "s", "y", "n", "c", " ", "d", "e", "f", " ", "f", "(", ")", " ", "-", ">", " ", "i", "n", "t", ":", "\n">>) ]

\* a function whose identifier is the Greek letter alpha (U+03B1)
DefAlpha ==
    [ NoFrag EXCEPT !.kind = "def", !.ident = << 945 >>,
                    !.text = Chars(<<"d", "e", "f", " ">>) \o << 945 >> \o Chars(<<"(", ")", ":", "\n">>) ]

\* a docstring of two lines; its first line starts with an ideographic
\* space (U+3000)
Doc ==
    [ NoFrag EXCEPT !.kind = "doc", !.doc = Chars(<<"D", "o", "c", ".">>),
                    !.text = Chars(<<" ", " ", " ", " ", "\"", "\"", "\"">>) \o << 12288 >>
                             \o Chars(<<"D", "o", "c", ".", "\n", " ", " ", " ", " ", "M", "o", "r", "e", ".", " ", "\"", "\"", "\"", "\n">>) ]

PyFrags ==
    { DecMcp, DecServerNamed, DecTool, DecToolNamed,
      DefFInline, DefFAsync, DefAlpha, Doc }

TsDecorator ==
    [ NoFrag EXCEPT !.kind = "ts_decorator", !.pattern = 1,
                    !.text = Chars(<<"@", "T", "o", "o", "l", "(", "{", " ", "d", "e", "s", "c", "r", "i", "p", "t", "i", "o", "n", ":", " ", "'", "d", "'", " ", "}", ")", "\n">>) ]

TsFunction ==
    [ NoFrag EXCEPT !.kind = "ts_function", !.ident = Chars(<<"t", "1">>),
                    !.text = Chars(<<"a", "s", "y", "n", "c", " ", "f", "u", "n", "c", "t", "i", "o", "n", " ", "t", "1", "(", ")", " ", "{", "}", "\n">>) ]

TsHandler ==
    [ NoFrag EXCEPT !.kind = "ts_handler", !.pattern = 2,
                    !.text = Chars(<<"s", "e", "r", "v", "e", "r", ".", "s", "e", "t", "R", "e", "q", "u", "e", "s", "t", "H", "a", "n", "d", "l", "e", "r", "(", "L", "i", "s", "t", "T", "o", "o", "l", "s", "R", "e", "q", "u", "e", "s", "t", "S", "c", "h", "e", "m", "a", ",", " ", "h", ")", "\n">>) ]

TsName ==
    [ NoFrag EXCEPT !.kind = "ts_name", !.name = Chars(<<"u">>),
                    !.text = Chars(<<" ", " ", "n", "a", "m", "e", ":", " ", "'", "u", "'", ",", "\n">>) ]

TsFrags == { TsDecorator, TsFunction, TsHandler, TsName }

APy == Chars(<<"a", ".", "p", "y">>)

BPy == Chars(<<"b", ".", "p", "y">>)

CTs == Chars(<<"c", ".", "t", "s">>)

DTsx == Chars(<<"d", ".", "t", "s", "x">>)

Readable(frags) == [ readable |-> TRUE, frags |-> frags ]

Unreadable(frags) == [ readable |-> FALSE, frags |-> frags ]

\* what each path of the repository may hold, when it is there
FileSamples(path) ==
    CASE path = APy  -> { Unreadable(<< DecMcp, DefFAsync >>),
                          Readable(<< DecMcp, DefFAsync, Doc >>),
                          Readable(<< DefFInline >>) }
      [] path = BPy  -> { Readable(<< DecToolNamed, DefAlpha >>) }
      [] path = CTs  -> { Unreadable(<< TsDecorator, TsFunction >>),
                          Readable(<< TsDecorator, TsFunction >>) }
      [] path = DTsx -> { Readable(<< TsHandler, TsName >>) }

\* the repositories: any of the paths, each with one of its samples
RepoSamples ==
    UNION { { files \in [ P -> UNION { FileSamples(p) : p \in P } ] :
                \A p \in P : files[p] \in FileSamples(p) }
            : P \in SUBSET { APy, BPy, CTs, DTsx } }

NoDepFile == [ exists |-> FALSE, readable |-> TRUE, text |-> <<>> ]

DepFile(text) == [ exists |-> TRUE, readable |-> TRUE, text |-> text ]

NoDeps ==
    [ f \in {"requirements.txt", "pyproject.toml", "Pipfile"} |-> NoDepFile ]

NoPackageJson ==
    [ exists |-> FALSE, parses |-> FALSE, dependencies |-> <<>>, devDependencies |-> <<>> ]

McpSdk == << << Chars(<<"@", "m", "o", "d", "e", "l", "c", "o", "n", "t", "e", "x", "t", "p", "r", "o", "t", "o", "c", "o", "l", "/", "s", "d", "k">>), Chars(<<"1", ".", "0">>) >> >>

\* the dependency manifests of the repository: <<the Python dependency
\* files, package.json>>
ManifestSamples ==
    { << NoDeps, NoPackageJson >>,
      << [ NoDeps EXCEPT !["requirements.txt"] = DepFile(Chars(<<"f", "l", "a", "s", "k", "\n">>)) ], NoPackageJson >>,
      << [ NoDeps EXCEPT !["requirements.txt"] = DepFile(Chars(<<"f", "a", "s", "t", "m", "c", "p", "\n">>)) ], NoPackageJson >>,
      << [ NoDeps EXCEPT !["requirements.txt"] = DepFile(Chars(<<"f", "l", "a", "s", "k", "\n">>)),
                         !["Pipfile"] = DepFile(Chars(<<"m", "c", "p", " ", "=", " ", "\"", "*", "\"", "\n">>)) ], NoPackageJson >>,
      << [ NoDeps EXCEPT !["pyproject.toml"] =
               [ exists |-> TRUE, readable |-> FALSE, text |-> <<>> ] ], NoPackageJson >>,
      << NoDeps, [ exists |-> TRUE, parses |-> FALSE,
                   dependencies |-> McpSdk, devDependencies |-> <<>> ] >>,
      << NoDeps, [ exists |-> TRUE, parses |-> TRUE,
                   dependencies |-> << << Chars(<<"e", "x", "p", "r", "e", "s", "s">>), Chars(<<"4">>) >> >>,
                   devDependencies |-> McpSdk ] >>,
      << NoDeps, [ exists |-> TRUE, parses |-> TRUE,
                   dependencies |-> << << Chars(<<"e", "x", "p", "r", "e", "s", "s">>), Chars(<<"4">>) >> >>,
                   devDependencies |-> <<>> ] >> }

VARIABLES
    vulnerabilities,   \* get_worst_severity: its argument
    sev_pc,            \* get_worst_severity: "call", "loop" or "ret"
    sev_i,             \* get_worst_severity: index of the next record of the for loop
    worst_severity,    \* get_worst_severity: local
    worst_priority,    \* get_worst_severity: local
    sev_ret            \* get_worst_severity: the value returned

VARIABLES
    results_dir,       \* the files of the results directory
    agg_ret,           \* what the last aggregate_results returned
    summary_rows,      \* generate_summary_table: `rows` after the sort
    summary_ret,       \* generate_summary_table: the lines of the text returned
    last_op,           \* the last call and its arguments
    prev_op,           \* the call before it
    pre_dir,           \* the directory before the last call
    ops                \* the number of calls made

VARIABLES
    repo_files,        \* the source files of the repository, by relative path
    dep_files,         \* requirements.txt, pyproject.toml and Pipfile
    package_json,      \* package.json
    tools,             \* ToolDetector.tools
    det_pc,            \* detect_tools: "idle", "python", "typescript", "done" or "raised"
    python_files,      \* detect_tools: python_files, in the order rglob yields them
    ts_files,          \* detect_tools: ts_files
    file_i,            \* detect_tools: index of the next file of the for loop
    det_ret            \* what the last detect_tools returned

sev_vars == <<vulnerabilities, sev_pc, sev_i, worst_severity, worst_priority, sev_ret>>

agg_vars == <<results_dir, agg_ret, summary_rows, summary_ret, last_op, prev_op, pre_dir, ops>>

det_vars == <<repo_files, dep_files, package_json, tools, det_pc, python_files,
              ts_files, file_i, det_ret>>

vars == <<sev_vars, agg_vars, det_vars>>

(***************************************************************************)
(* get_worst_severity, one action per step of its body.                    *)
(***************************************************************************)
SevIdle ==
    /\ vulnerabilities = <<>>
    /\ sev_pc = "idle"
    /\ sev_i = 1
    /\ worst_severity = "NONE"
    /\ worst_priority = Priority("NONE")
    /\ sev_ret = "none yet"

SevInit ==
    /\ vulnerabilities \in SeqsUpTo(VulnRecords, MaxVulns)
    /\ sev_pc = "call"
    /\ sev_i = 1
    /\ worst_severity = "NONE"
    /\ worst_priority = Priority("NONE")
    /\ sev_ret = "none yet"

\* lines 34-38: the early return for an empty list, else the initial worst
SevEnter ==
    /\ sev_pc = "call"
    /\ IF vulnerabilities = <<>>
       THEN /\ sev_ret' = "NONE"
            /\ sev_pc' = "ret"
            /\ UNCHANGED <<worst_severity, worst_priority>>
       ELSE /\ worst_severity' = "NONE"
            /\ worst_priority' = Priority("NONE")
            /\ sev_pc' = "loop"
            /\ UNCHANGED sev_ret
    /\ sev_i' = 1
    /\ UNCHANGED <<vulnerabilities, agg_vars, det_vars>>

\* lines 40-46: one iteration of the for loop
SevLoop ==
    /\ sev_pc = "loop"
    /\ sev_i <= Len(vulnerabilities)
    /\ LET worst == WorstStep(<<worst_severity, worst_priority>>, vulnerabilities[sev_i])
       IN  /\ worst_severity' = worst[1]
           /\ worst_priority' = worst[2]
    /\ sev_i' = sev_i + 1
    /\ UNCHANGED <<vulnerabilities, sev_pc, sev_ret, agg_vars, det_vars>>

\* line 48
SevReturn ==
    /\ sev_pc = "loop"
    /\ sev_i > Len(vulnerabilities)
    /\ sev_ret' = worst_severity
    /\ sev_pc' = "ret"
    /\ UNCHANGED <<vulnerabilities, sev_i, worst_severity, worst_priority, agg_vars, det_vars>>

SevNext == SevEnter \/ SevLoop \/ SevReturn

(***************************************************************************)
(* The calls on the results directory.                                     *)
(***************************************************************************)
NoOp == [op |-> "none", org |-> <<>>, repo |-> <<>>, scanner |-> <<>>, data |-> <<>>]

AggIdle ==
    /\ results_dir = <<>>
    /\ agg_ret = <<>>
    /\ summary_rows = <<>>
    /\ summary_ret = <<>>
    /\ last_op = NoOp
    /\ prev_op = NoOp
    /\ pre_dir = <<>>
    /\ ops = 0

AggInit ==
    /\ results_dir \in InitialDirs
    /\ agg_ret = <<>>
    /\ summary_rows = <<>>
    /\ summary_ret = <<>>
    /\ last_op = NoOp
    /\ prev_op = NoOp
    /\ pre_dir = results_dir
    /\ ops = 0

\* what every call records
Called(op) ==
    /\ ops < MaxOps
    /\ ops' = ops + 1
    /\ prev_op' = last_op
    /\ last_op' = op
    /\ pre_dir' = results_dir

\* a scanner run of the orchestrator leaves its findings in its temp file
ScannerWritesTemp(scanner, vulns) ==
    /\ Called([NoOp EXCEPT !.op = "scan", !.scanner = scanner, !.data = vulns])
    /\ results_dir' = WriteFile(results_dir, TempFileName(scanner),
                                JsonDump(<< <<scanner, vulns>> >>))
    /\ UNCHANGED <<agg_ret, summary_rows, summary_ret, sev_vars, det_vars>>

\* aggregate_results(org_name, repo_name, results_dir)
Aggregate(org_name, repo_name) ==
    /\ Called([NoOp EXCEPT !.op = "aggregate", !.org = org_name, !.repo = repo_name])
    /\ agg_ret' = AggregateResults(org_name, repo_name, results_dir)
    /\ UNCHANGED <<results_dir, summary_rows, summary_ret, sev_vars, det_vars>>

\* save_aggregated_results(org_name, repo_name, results, results_dir)
Save(org_name, repo_name, results) ==
    /\ Called([NoOp EXCEPT !.op = "save", !.org = org_name, !.repo = repo_name,
                           !.data = results])
    /\ results_dir' = SaveAggregatedResults(org_name, repo_name, results, results_dir)
    /\ UNCHANGED <<agg_ret, summary_rows, summary_ret, sev_vars, det_vars>>

\* generate_summary_table(results_dir); glob yields the matching files in
\* the directory's order, which is any order
Summary(files) ==
    /\ Called([NoOp EXCEPT !.op = "summary"])
    /\ summary_rows' = SummaryRows(files, results_dir)
    /\ summary_ret' = SummaryLines(summary_rows')
    /\ UNCHANGED <<results_dir, agg_ret, sev_vars, det_vars>>

AggNext ==
    \/ \E i \in 1..Len(SCANNER_MAP), vulns \in ScanOutputs :
           ScannerWritesTemp(SCANNER_MAP[i], vulns)
    \/ \E r \in Repositories : Aggregate(r[1], r[2])
    \/ \E r \in Repositories, results \in SampleResults \cup {agg_ret} :
           Save(r[1], r[2], results)
    \/ \E files \in Orderings({ n \in DOMAIN results_dir : GlobMatches(n) }) :
           Summary(files)

(***************************************************************************)
(* ToolDetector.detect_tools, one action per step of its body.             *)
(***************************************************************************)
DetIdle ==
    /\ repo_files = <<>>
    /\ dep_files = NoDeps
    /\ package_json = NoPackageJson
    /\ tools = <<>>
    /\ det_pc = "idle"
    /\ python_files = <<>>
    /\ ts_files = <<>>
    /\ file_i = 1
    /\ det_ret = <<>>

\* a detector on a repository of several files, with its manifests
RepoInit ==
    /\ repo_files \in RepoSamples
    /\ \E manifest \in ManifestSamples :
           /\ dep_files = manifest[1]
           /\ package_json = manifest[2]
    /\ tools = <<>>
    /\ det_pc = "idle"
    /\ python_files = <<>>
    /\ ts_files = <<>>
    /\ file_i = 1
    /\ det_ret = <<>>

\* a detector on a repository of one source file and no manifest
FileInit ==
    /\ \/ \E frags \in SeqsUpTo(PyFrags, MaxFrags) :
              repo_files = [ p \in {APy} |-> Readable(frags) ]
       \/ \E frags \in SeqsUpTo(TsFrags, MaxFrags) :
              repo_files = [ p \in {CTs} |-> Readable(frags) ]
    /\ dep_files = NoDeps
    /\ package_json = NoPackageJson
    /\ tools = <<>>
    /\ det_pc = "idle"
    /\ python_files = <<>>
    /\ ts_files = <<>>
    /\ file_i = 1
    /\ det_ret = <<>>

\* lines 58-61; rglob yields the files in the directories' order, which is
\* any order
EnterDetectTools(order) ==
    /\ tools' = ResetTools(tools)
    /\ python_files' = order
    /\ ts_files' = <<>>
    /\ file_i' = 1
    /\ det_pc' = "python"
    /\ UNCHANGED <<repo_files, dep_files, package_json, det_ret, sev_vars, agg_vars>>

\* the first call of detect_tools
DetCall ==
    /\ det_pc = "idle"
    /\ \E order \in Orderings(Rglob(repo_files, Lit.py)) : EnterDetectTools(order)

\* a later call of detect_tools on the same detector
DetCallAgain ==
    /\ det_pc \in {"done", "raised"}
    /\ \E order \in Orderings(Rglob(repo_files, Lit.py)) : EnterDetectTools(order)

\* lines 62-63: one iteration
DetPythonFile ==
    /\ det_pc = "python"
    /\ file_i <= Len(python_files)
    /\ tools' = DetectPythonTools(tools, python_files[file_i],
                                  repo_files[RelativeTo(python_files[file_i], RepoPath)])
    /\ file_i' = file_i + 1
    /\ UNCHANGED <<repo_files, dep_files, package_json, det_pc, python_files,
                   ts_files, det_ret, sev_vars, agg_vars>>

\* line 66
DetListTs ==
    /\ det_pc = "python"
    /\ file_i > Len(python_files)
    /\ \E ts \in Orderings(Rglob(repo_files, Lit.ts)),
          tsx \in Orderings(Rglob(repo_files, Lit.tsx)) :
           ts_files' = ts \o tsx
    /\ file_i' = 1
    /\ det_pc' = "typescript"
    /\ UNCHANGED <<repo_files, dep_files, package_json, tools, python_files,
                   det_ret, sev_vars, agg_vars>>

\* lines 67-68: one iteration
DetTsFile ==
    /\ det_pc = "typescript"
    /\ file_i <= Len(ts_files)
    /\ tools' = DetectTypescriptTools(tools, ts_files[file_i],
                                      repo_files[RelativeTo(ts_files[file_i], RepoPath)])
    /\ file_i' = file_i + 1
    /\ UNCHANGED <<repo_files, dep_files, package_json, det_pc, python_files,
                   ts_files, det_ret, sev_vars, agg_vars>>

\* lines 71-78: _is_mcp_server is called only when no tool was found; an
\* exception of it leaves detect_tools
DetFinish ==
    /\ det_pc = "typescript"
    /\ file_i > Len(ts_files)
    /\ IF tools = <<>> /\ IsMcpServer(dep_files, package_json) = "raise"
       THEN /\ det_pc' = "raised"
            /\ UNCHANGED <<tools, det_ret>>
       ELSE /\ tools' = IF tools = <<>> /\ IsMcpServer(dep_files, package_json) = "true"
                        THEN Append(tools, Placeholder)
                        ELSE tools
            /\ det_ret' = tools'
            /\ det_pc' = "done"
    /\ UNCHANGED <<repo_files, dep_files, package_json, python_files, ts_files,
                   file_i, sev_vars, agg_vars>>

\* between two calls the repository changes: a file appears, changes or goes
RepoEdited ==
    /\ det_pc \in {"done", "raised"}
    /\ \E files \in RepoSamples :
           /\ Cardinality({ p \in DOMAIN files \cup DOMAIN repo_files :
                              \/ p \notin DOMAIN files
                              \/ p \notin DOMAIN repo_files
                              \/ files[p] # repo_files[p] }) = 1
           /\ repo_files' = files
    /\ det_pc' = "idle"
    /\ UNCHANGED <<dep_files, package_json, tools, python_files, ts_files,
                   file_i, det_ret, sev_vars, agg_vars>>

\* one call
FileNext == DetCall \/ DetPythonFile \/ DetListTs \/ DetTsFile \/ DetFinish

\* calls, and changes of the repository between them
RepoNext == FileNext \/ DetCallAgain \/ RepoEdited

(***************************************************************************)
(* The specifications.                                                     *)
(***************************************************************************)
InitSeverity == SevInit /\ AggIdle /\ DetIdle

SpecSeverity == InitSeverity /\ [][SevNext]_vars

InitAggregate == SevIdle /\ AggInit /\ DetIdle

SpecAggregate == InitAggregate /\ [][AggNext]_vars

InitFile == SevIdle /\ AggIdle /\ FileInit

SpecFile == InitFile /\ [][FileNext]_vars

InitRepo == SevIdle /\ AggIdle /\ RepoInit

SpecRepo == InitRepo /\ [][RepoNext]_vars

(***************************************************************************)
(* Claims about get_worst_severity.                                        *)
(***************************************************************************)
\* the severities present in the input, a missing one counting as UNKNOWN
PresentSeverities == { SeverityOf(vulnerabilities[i]) : i \in 1..Len(vulnerabilities) }

\* C1: get_worst_severity returns 'NONE' for the empty list, and for a
\* non-empty list a severity that is present in the input and that no other
\* severity present in the input precedes in the fixed order.
C1_WorstIsFirstPresent ==
    sev_pc = "ret" =>
        IF vulnerabilities = <<>>
        THEN sev_ret = "NONE"
        ELSE /\ sev_ret \in PresentSeverities
             /\ \A s \in PresentSeverities : ~(Priority(s) < Priority(sev_ret))

(***************************************************************************)
(* Claims about aggregate_results and save_aggregated_results.             *)
(***************************************************************************)
\* the mapping a per-repository file held before the last call
PriorMapping(org_name, repo_name) ==
    IF Exists(pre_dir, PerRepoFileName(org_name, repo_name))
    THEN JsonLoad(pre_dir[PerRepoFileName(org_name, repo_name)])
    ELSE <<>>

\* the temp files present before the last call
TempFilesBefore == { n \in TEMP_SCANNER_FILE_NAMES : Exists(pre_dir, n) }

\* the directory after the mapping returned is saved and the scanners leave
\* the same temp files again
Resupplied(org_name, repo_name) ==
    LET saved == SaveAggregatedResults(org_name, repo_name, agg_ret, pre_dir)
    IN  [ n \in DOMAIN saved \cup TempFilesBefore |->
            IF n \in TempFilesBefore THEN pre_dir[n] ELSE saved[n] ]

\* C2: when aggregate_results runs with a per-repository mapping that has an
\* entry for scanner S and the temp file of S is present, the entry of S
\* returned is exactly the temp file's contents for S (replaced, not
\* concatenated); the entries of scanners with no temp file are kept; and
\* aggregate -> save -> the same temp files again -> aggregate returns the
\* same mapping, with no key twice.
C2_MergeReplaces ==
    last_op.op = "aggregate" =>
        LET prior == PriorMapping(last_op.org, last_op.repo)
            again == AggregateResults(last_op.org, last_op.repo,
                                      Resupplied(last_op.org, last_op.repo))
        IN  /\ \A i \in 1..Len(SCANNER_MAP) :
                   LET S == SCANNER_MAP[i]
                   IN  IF Exists(pre_dir, TempFileName(S))
                       THEN DictHas(prior, S) =>
                               /\ DictHas(agg_ret, S)
                               /\ DictGet(agg_ret, S, <<>>)
                                    = DictGet(JsonLoad(pre_dir[TempFileName(S)]), S, <<>>)
                       ELSE /\ DictHas(agg_ret, S) <=> DictHas(prior, S)
                            /\ DictGet(agg_ret, S, <<>>) = DictGet(prior, S, <<>>)
            /\ DictEq(again, agg_ret)
            /\ Cardinality(DictKeys(again)) = Len(again)
            /\ Cardinality(DictKeys(agg_ret)) = Len(agg_ret)

\* a merge that replaced a non-empty prior entry by different findings, next
\* to an entry of a scanner that left no temp file
C2_Witness ==
    /\ last_op.op = "aggregate"
    /\ \E i, j \in 1..Len(SCANNER_MAP) :
           LET S == SCANNER_MAP[i]
               other == SCANNER_MAP[j]
               prior == PriorMapping(last_op.org, last_op.repo)
           IN  /\ Exists(pre_dir, TempFileName(S))
               /\ DictGet(prior, S, <<>>) # <<>>
               /\ DictGet(agg_ret, S, <<>>) # <<>>
               /\ DictGet(agg_ret, S, <<>>) # DictGet(prior, S, <<>>)
               /\ ~Exists(pre_dir, TempFileName(other))
               /\ DictHas(prior, other)

\* C3: save_aggregated_results(org, repo, m, dir) followed by
\* aggregate_results(org, repo, dir), with no temp file created in between,
\* returns exactly m, for every org/repo name.
C3_SaveThenAggregate ==
    ( /\ last_op.op = "aggregate"
      /\ prev_op.op = "save"
      /\ prev_op.org = last_op.org
      /\ prev_op.repo = last_op.repo )
    => DictEq(agg_ret, prev_op.data)

\* C4: after save_aggregated_results(org, repo, results, dir) the file
\* {org}-{repo}-violations.json exists and holds the mapping, no temp file of
\* a known scanner remains, and every other repository's file is unchanged.
C4_SaveLeaves ==
    last_op.op = "save" =>
        LET violations_file == PerRepoFileName(last_op.org, last_op.repo)
        IN  /\ Exists(results_dir, violations_file)
            /\ DictEq(JsonLoad(results_dir[violations_file]), last_op.data)
            /\ \A n \in TEMP_SCANNER_FILE_NAMES : ~Exists(results_dir, n)
            /\ \A r \in Repositories \ { <<last_op.org, last_op.repo>> } :
                   LET other == PerRepoFileName(r[1], r[2])
                   IN  /\ Exists(results_dir, other) <=> Exists(pre_dir, other)
                       /\ Exists(pre_dir, other) => results_dir[other] = pre_dir[other]

(***************************************************************************)
(* Claims about generate_summary_table.                                    *)
(***************************************************************************)
\* the repositories that have a row: their file exists and is no temp file
Listed ==
    { r \in Repositories :
        /\ Exists(results_dir, PerRepoFileName(r[1], r[2]))
        /\ PerRepoFileName(r[1], r[2]) \notin TEMP_SCANNER_FILE_NAMES }

\* the rank of the worst severity of a repository's findings
WorstRank(r) ==
    Priority(GetWorstSeverity(
        AllVulnerabilities(JsonLoad(results_dir[PerRepoFileName(r[1], r[2])]), 1)))

\* the place of a repository's line in the text: the line that links to its file
LineOf(r) ==
    CHOOSE k \in (Len(TableHeader) + 1)..Len(summary_ret) :
        summary_ret[k][2]
          = <<"[", "clipboard", "]", "(", "r", "e", "s", "u", "l", "t", "s", "/">>
              \o PerRepoFileName(r[1], r[2]) \o <<")">>

\* C5: in the table, a repository whose worst severity is less severe than
\* another's has its row before it, and rows of the same rank are in
\* ascending alphabetical order of org/repo.
C5_BestFirstThenName ==
    last_op.op = "summary" =>
        /\ Len(summary_ret) = Len(TableHeader) + Cardinality(Listed)
        /\ \A a, b \in Listed :
               /\ WorstRank(a) > WorstRank(b) => LineOf(a) < LineOf(b)
               /\ ( /\ WorstRank(a) = WorstRank(b)
                    /\ StrLess(a[1] \o <<"/">> \o a[2], b[1] \o <<"/">> \o b[2]) )
                  => LineOf(a) < LineOf(b)

\* a table where the rank decides against the alphabet: acme/api has a
\* CRITICAL finding, acme/web has none that severe, and web comes first
C5_Witness ==
    /\ last_op.op = "summary"
    /\ { <<Acme, Api>>, <<Acme, Web>> } \subseteq Listed
    /\ WorstRank(<<Acme, Api>>) = 0
    /\ WorstRank(<<Acme, Web>>) > 0
    /\ LineOf(<<Acme, Web>>) < LineOf(<<Acme, Api>>)


(***************************************************************************)
(* tool_detector.py: what a repository holds, read from its fragments.     *)
(***************************************************************************)
CallEnded == det_pc \in {"done", "raised"}

IsPython(path) == EndsWith(path, Lit.py)

ReadablePaths == { p \in DOMAIN repo_files : repo_files[p].readable }

FailingPaths == DOMAIN repo_files \ ReadablePaths

\* the records of the result that name the file
RecordsOf(path) == SelectSeq(det_ret, LAMBDA t : t.file_path = path)

\* the line on which the i-th fragment starts
StartLine(frags, i) ==
    LET before == Text(SubSeq(frags, 1, i - 1))
    IN  1 + Cardinality({ k \in 1..Len(before) : before[k] = Chr.lf })

\* the annotations that a function definition follows
AnnotatedDefs(frags) ==
    { i \in 1..(Len(frags) - 1) :
        frags[i].kind = "decorator" /\ frags[i + 1].kind = "def" }

\* the fragment that starts on the line
FragAtLine(frags, line) == CHOOSE i \in 1..Len(frags) : StartLine(frags, i) = line

\* the first line of the docstring next to the signature of the function
\* under the i-th fragment's annotation
AdjacentDocstring(frags, i) ==
    IF i + 2 <= Len(frags) /\ frags[i + 2].kind = "doc" /\ ~frags[i + 1].inline
    THEN frags[i + 2].doc
    ELSE <<>>

\* no pattern of the file's language matches in any file that was read
NoPatternMatched ==
    \A p \in ReadablePaths :
        \A pattern \in IF IsPython(p) THEN {"py1", "py2"} ELSE {"ts1", "ts2"} :
            FindIter(pattern, Text(repo_files[p].frags), 1) = <<>>

\* some manifest names the MCP ecosystem
ReferencesMcp ==
    \/ \E f \in DOMAIN dep_files :
           /\ dep_files[f].exists
           /\ dep_files[f].readable
           /\ Contains(dep_files[f].text, Lit.mcp)
    \/ /\ package_json.exists
       /\ package_json.parses
       /\ \E section \in {package_json.dependencies, package_json.devDependencies} :
              \E k \in 1..Len(section) : Contains(section[k][1], Lit.mcp)
                                         \/ Contains(section[k][1], Lit.protocol)

\* C6: detect_tools returns the placeholder record exactly when no pattern
\* matched in any source file and a manifest references MCP, and then it is
\* the only record; when no pattern matched and no manifest references MCP
\* the result is the empty list; the placeholder is never next to a detected
\* tool, on any call of the same detector.
C6_PlaceholderIffMcpOnly ==
    /\ CallEnded /\ NoPatternMatched /\ ReferencesMcp
           => det_pc = "done" /\ det_ret = << Placeholder >>
    /\ CallEnded /\ NoPatternMatched /\ ~ReferencesMcp
           => det_pc = "done" /\ det_ret = <<>>
    /\ CallEnded /\ ~NoPatternMatched
           => det_pc = "done" /\ \A k \in 1..Len(det_ret) : det_ret[k] # Placeholder
    /\ \A k \in 1..Len(tools) : tools[k] = Placeholder => Len(tools) = 1

\* C7: in a Python file every annotation that a function definition follows
\* yields exactly one record, on the annotation's line, named by the
\* annotation's name= argument when it has one and by the function's
\* identifier otherwise; nothing else yields a record.
C7_NameOfAnnotation ==
    det_pc = "done" =>
        \A p \in { q \in ReadablePaths : IsPython(q) } :
            LET frags == repo_files[p].frags
                recs  == RecordsOf(p)
            IN  /\ Len(recs) = Cardinality(AnnotatedDefs(frags))
                /\ \A i \in AnnotatedDefs(frags) :
                       \E k \in 1..Len(recs) :
                           /\ recs[k].line_number = StartLine(frags, i)
                           /\ recs[k].name = IF frags[i].name # <<>>
                                             THEN frags[i].name
                                             ELSE frags[i + 1].ident

\* a file with an annotation that names its tool and one that does not, and
\* a record for each
C7_Witness ==
    /\ det_pc = "done"
    /\ \E p \in ReadablePaths :
           /\ IsPython(p)
           /\ \E i, j \in AnnotatedDefs(repo_files[p].frags) :
                  /\ repo_files[p].frags[i].name # <<>>
                  /\ repo_files[p].frags[j].name = <<>>
           /\ Len(RecordsOf(p)) = 2

\* C8 as stated: within one file the records are in the order of their
\* match positions, with non-decreasing line_number, whatever pattern each
\* match belongs to.
C8_OrderedByLine ==
    det_pc = "done" =>
        \A p \in ReadablePaths :
            \A k, l \in 1..Len(RecordsOf(p)) :
                k < l => RecordsOf(p)[k].line_number <= RecordsOf(p)[l].line_number

\* the pattern, by its place in the pattern list, of the annotation on the
\* record's line
PatternOf(path, record) ==
    repo_files[path].frags[FragAtLine(repo_files[path].frags, record.line_number)].pattern

\* C8 amended: within one file the records of the matches of one pattern are
\* in the order of their match positions, and the records of a pattern come
\* before those of every pattern later in the pattern list.
C8_OrderedByPatternThenLine ==
    det_pc = "done" =>
        \A p \in ReadablePaths :
            \A k, l \in 1..Len(RecordsOf(p)) :
                k < l =>
                    \/ PatternOf(p, RecordsOf(p)[k]) < PatternOf(p, RecordsOf(p)[l])
                    \/ /\ PatternOf(p, RecordsOf(p)[k]) = PatternOf(p, RecordsOf(p)[l])
                       /\ RecordsOf(p)[k].line_number <= RecordsOf(p)[l].line_number

\* a file where a match of the second pattern comes before a match of the
\* first, and one where two matches of one pattern follow each other
C8_Witness ==
    /\ det_pc = "done"
    /\ \E p \in ReadablePaths :
           \E k, l \in 1..Len(RecordsOf(p)) :
               /\ k < l
               /\ \/ RecordsOf(p)[k].line_number > RecordsOf(p)[l].line_number
                  \/ /\ Len(RecordsOf(p)) = 2
                     /\ PatternOf(p, RecordsOf(p)[k]) = PatternOf(p, RecordsOf(p)[l])

\* the tools of the files of the list that can be read, in the list's order
RECURSIVE ToolsOfReadable(_, _)
ToolsOfReadable(paths, i) ==
    IF i > Len(paths) THEN <<>>
    ELSE LET relative == RelativeTo(paths[i], RepoPath)
             content  == Text(repo_files[relative].frags)
         IN  (IF relative \in FailingPaths THEN <<>>
              ELSE IF IsPython(relative) THEN PythonTools(content, relative)
              ELSE TypescriptPatternLoop(TYPESCRIPT_TOOL_PATTERNS, 1, content, relative))
             \o ToolsOfReadable(paths, i + 1)

\* what detect_tools returns on the repository without its failing files,
\* when it returns
ResultWithoutFailing ==
    LET found == ToolsOfReadable(python_files \o ts_files, 1)
    IN  IF found # <<>> THEN found
        ELSE IF IsMcpServer(dep_files, package_json) = "true" THEN << Placeholder >>
        ELSE <<>>

\* C9: when the processing of a source file raises, detect_tools still
\* completes, its result has no record of the failing file, and the records
\* of the other files are those of the repository without the failing file.
C9_FailingFileSkipped ==
    CallEnded /\ FailingPaths # {} =>
        /\ det_pc = "done"
        /\ \A k \in 1..Len(det_ret) : det_ret[k].file_path \notin FailingPaths
        /\ det_ret = ResultWithoutFailing

\* C10: the description of a Python tool is the first line of the docstring
\* next to the signature of the tool's own function, and empty when that
\* function has none, also when another function of the file has the same
\* identifier and a docstring.
C10_OwnDocstring ==
    det_pc = "done" =>
        \A p \in { q \in ReadablePaths : IsPython(q) } :
            \A k \in 1..Len(RecordsOf(p)) :
                RecordsOf(p)[k].description =
                    AdjacentDocstring(repo_files[p].frags,
                                      FragAtLine(repo_files[p].frags,
                                                 RecordsOf(p)[k].line_number))

=============================================================================
